---- MODULE Spec2Model ----
(***************************************************************************)
(* hostsctl: the advisory file lock (internal/lock/flock.go), the atomic   *)
(* store (internal/hosts/store.go), the parser and the in-memory model     *)
(* (internal/hosts/parser.go, model.go) and the commands that combine them *)
(* (internal/cli/commands.go), over a small POSIX file system: a directory *)
(* maps path names to inodes, open handles name inodes, flock(2) locks are *)
(* held on inodes, rename(2) and unlink(2) change the directory only.      *)
(***************************************************************************)
EXTENDS Integers, Sequences, FiniteSets, TLC

VARIABLES
    dir,        \* path name -> inode linked there (0: no such file)
    data,       \* inode -> bytes of the file
    flock,      \* inode -> process whose open handle holds LOCK_EX (0: free)
    now,        \* wall clock, in the seconds of the backup time stamp
    pc,         \* process -> position in the code
    lfile,      \* process -> FileLock.file / the local `file`: inode of the open lock handle (0: nil)
    acquired,   \* process -> FileLock.acquired
    elapsed,    \* process -> poll intervals elapsed since `deadline` was computed
    inWith,     \* process -> executing inside WithLock
    invoked,    \* process -> number of times the current WithLock has called fn
    fnres,      \* process -> what fn returned to WithLock
    res,        \* process -> what the last finished call returned
    spath,      \* Store.path, the canonical hosts file
    euid,       \* os.Geteuid() of the processes
    strict,     \* Store.strict
    cmd,        \* process -> the hostsctl command it runs or ran last ("none": it calls the Store itself)
    op,         \* process -> the Store method (or read) it is in or was in last
    hf,         \* process -> its HostsFile.Entries
    content,    \* process -> Save's `content`, the serialized text
    src,        \* process -> inode of the handle it reads from (0: none)
    dst,        \* process -> inode of the handle it writes to (0: none)
    rfd,        \* process -> inode of Restore's backupFile (0: none)
    bpath,      \* process -> backupPath / outputPath / the path Restore was given
    info,       \* process -> the BackupInfo Backup returned
    obs,        \* process -> the bytes its last read of the canonical file returned
    pre,        \* history: process -> canonical bytes when its Save/Backup/Restore was called
    rsrc,       \* history: process -> bytes at backupPath when its Restore was called
    nops,       \* history: number of Store calls made so far
    stamp,      \* history: process -> the Store call during which its read opened the file (0: none)
    ncmd,       \* history: process -> number of commands it has started
    added,      \* history: process -> the host names its successful add commands added
    kept,       \* history: the backups the successful Saves have written: path and bytes
    out,        \* process -> the last call it made of a function of the parser or the model: name, argument, result
    removed     \* history: process -> the ids RemoveEntry has removed from its HostsFile

lockVars == <<lfile, acquired, elapsed, inWith, invoked, fnres>>

\* who calls the Store
ctxVars == <<spath, euid, strict, cmd>>

storeVars == <<op, hf, content, src, dst, rfd, bpath, info>>

histVars == <<obs, pre, rsrc, nops, stamp, ncmd, added, kept>>

\* the in-memory calls of the parser and the model
modelVars == <<out, removed>>

\* everything the lock does not touch
storeSide == <<ctxVars, storeVars, histVars, modelVars>>

vars == <<dir, data, flock, now, pc, res, lockVars, storeSide>>

-----------------------------------------------------------------------------
(* Bounds of the model *)

\* processes running at once, each with its own FileLock instance
NProcs == 2
\* LockWithTimeout's timeout in poll intervals (5 s at 100 ms in WithQuickLock, scaled down)
TimeoutPolls == 1
\* the last second of the wall clock
MaxClock == 1
\* Store calls one run makes
MaxOps == 2
\* commands one run starts
MaxCmds == 3

Procs == 1..NProcs

-----------------------------------------------------------------------------
(* Text: a string is a sequence of one-character strings *)

Digits == {"0", "1", "2", "3", "4", "5", "6", "7", "8", "9"}

Lower == {"a", "b", "c", "d", "e", "f", "g", "h", "i", "j", "k", "l", "m",
          "n", "o", "p", "q", "r", "s", "t", "u", "v", "w", "x", "y", "z"}

Upper == {"A", "B", "C", "D", "E", "F", "G", "H", "I", "J", "K", "L", "M",
          "N", "O", "P", "Q", "R", "S", "T", "U", "V", "W", "X", "Y", "Z"}

AlphaNum == Digits \cup Lower \cup Upper

HexDigits == Digits \cup {"a", "b", "c", "d", "e", "f", "A", "B", "C", "D", "E", "F"}

\* int(char - '0')
DigitVal(c) ==
    CASE c = "0" -> 0 [] c = "1" -> 1 [] c = "2" -> 2 [] c = "3" -> 3 [] c = "4" -> 4
      [] c = "5" -> 5 [] c = "6" -> 6 [] c = "7" -> 7 [] c = "8" -> 8 [] c = "9" -> 9

\* \s of the regular expressions and the white space of strings.TrimSpace
IsSpace(c) == c \in {" ", "\t", "\r", "\n"}

SetMin(S) == CHOOSE x \in S : \A y \in S : x <= y

\* the first position from i on that holds no white space (Len + 1: none)
SkipSpaces(s, i) ==
    SetMin({j \in i..(Len(s) + 1) : j = Len(s) + 1 \/ ~IsSpace(s[j])})

\* the first position from i on that holds white space (Len + 1: none)
SkipNonSpaces(s, i) ==
    SetMin({j \in i..(Len(s) + 1) : j = Len(s) + 1 \/ IsSpace(s[j])})

\* strings.TrimSpace
TrimSpace(s) ==
    LET a == SkipSpaces(s, 1)
        B == {j \in 1..Len(s) : ~IsSpace(s[j])}
    IN  IF B = {} THEN <<>> ELSE SubSeq(s, a, CHOOSE j \in B : \A k \in B : k <= j)

\* strings.Fields
RECURSIVE FieldsFrom(_, _)
FieldsFrom(s, i) ==
    LET a == SkipSpaces(s, i) IN
    IF a > Len(s) THEN <<>>
    ELSE LET b == SkipNonSpaces(s, a) IN <<SubSeq(s, a, b - 1)>> \o FieldsFrom(s, b)

Fields(s) == FieldsFrom(s, 1)

\* strings.Split(s, sep) for a separator of one or two characters
RECURSIVE SplitFrom(_, _, _, _)
SplitFrom(s, sep, start, i) ==
    IF i + Len(sep) - 1 > Len(s) THEN <<SubSeq(s, start, Len(s))>>
    ELSE IF SubSeq(s, i, i + Len(sep) - 1) = sep
         THEN <<SubSeq(s, start, i - 1)>> \o SplitFrom(s, sep, i + Len(sep), i + Len(sep))
         ELSE SplitFrom(s, sep, start, i + 1)

Split(s, sep) == SplitFrom(s, sep, 1, 1)

\* strings.Contains
Contains(s, sep) == \E i \in 1..Len(s) : i + Len(sep) - 1 <= Len(s) /\ SubSeq(s, i, i + Len(sep) - 1) = sep

\* strings.Join
RECURSIVE Join(_, _)
Join(parts, sep) ==
    IF parts = <<>> THEN <<>>
    ELSE IF Len(parts) = 1 THEN parts[1]
    ELSE parts[1] \o sep \o Join(Tail(parts), sep)

\* the lines bufio.Scanner hands out with the default split function
\* bufio.ScanLines: cut at each \n, one trailing \r dropped, a last line
\* without \n kept when it is not empty
DropCR(l) == IF l # <<>> /\ l[Len(l)] = "\r" THEN SubSeq(l, 1, Len(l) - 1) ELSE l

\* bufio.MaxScanTokenSize, the buffer limit of the bufio.Scanner of parser.go:51
MaxScanTokenSize == 65536

\* the positions where a line of the text starts
LineStarts(t) == {1} \cup {j + 1 : j \in {k \in 1..Len(t) : t[k] = "\n"}}

\* parser.go:55,78: the start of the first line that fills the buffer of the Scanner before its
\* end is seen (Scan stops there and Err returns bufio.ErrTooLong), 0 when no line does
FirstTooLong(t) ==
    IF Len(t) < MaxScanTokenSize THEN 0
    ELSE LET S == {s \in LineStarts(t) :
                      /\ s + MaxScanTokenSize - 1 <= Len(t)
                      /\ \A j \in s..(s + MaxScanTokenSize - 1) : t[j] # "\n"}
         IN  IF S = {} THEN 0 ELSE SetMin(S)

RECURSIVE ScanLinesFrom(_, _)
ScanLinesFrom(t, i) ==
    IF i > Len(t) THEN <<>>
    ELSE LET N == {j \in i..Len(t) : t[j] = "\n"} IN
         IF N = {} THEN <<DropCR(SubSeq(t, i, Len(t)))>>
         ELSE <<DropCR(SubSeq(t, i, SetMin(N) - 1))>> \o ScanLinesFrom(t, SetMin(N) + 1)

ScanLines(t) == ScanLinesFrom(t, 1)

-----------------------------------------------------------------------------
(* internal/hosts/parser.go and Entry.String of internal/hosts/model.go *)

\* parser.go:226-242
isValidIPv6Part(part) ==
    /\ Len(part) # 0
    /\ Len(part) <= 4
    /\ \A i \in 1..Len(part) : part[i] \in HexDigits

\* parser.go:180-224
isValidIPv6(ip) ==
    IF Contains(ip, <<":", ":">>)
    THEN LET parts == Split(ip, <<":", ":">>) IN
         IF Len(parts) # 2 THEN FALSE
         ELSE LET leftParts == IF parts[1] # <<>> THEN Split(parts[1], <<":">>) ELSE <<>>
                  rightParts == IF parts[2] # <<>> THEN Split(parts[2], <<":">>) ELSE <<>>
                  allParts == leftParts \o rightParts
              IN  /\ Len(leftParts) + Len(rightParts) < 8
                  /\ \A i \in 1..Len(allParts) : isValidIPv6Part(allParts[i])
    ELSE LET parts == Split(ip, <<":">>) IN
         /\ Len(parts) = 8
         /\ \A i \in 1..Len(parts) : isValidIPv6Part(parts[i])

\* num = num*10 + int(char-'0') over the characters of part
RECURSIVE Atoi(_)
Atoi(part) ==
    IF part = <<>> THEN 0
    ELSE Atoi(SubSeq(part, 1, Len(part) - 1)) * 10 + DigitVal(part[Len(part)])

\* parser.go:153-173: one dot-separated group of an IPv4 address
isValidIPv4Part(part) ==
    /\ Len(part) # 0
    /\ Len(part) <= 3
    /\ \A i \in 1..Len(part) : part[i] \in Digits
    /\ Atoi(part) <= 255
    /\ ~(Len(part) > 1 /\ part[1] = "0")

\* parser.go:147-176
isValidIP(ip) ==
    LET parts == Split(ip, <<".">>) IN
    IF Len(parts) # 4 THEN isValidIPv6(ip)
    ELSE \A i \in 1..Len(parts) : isValidIPv4Part(parts[i])

\* parser.go:17: one label, [a-zA-Z0-9]([a-zA-Z0-9\-]{0,61}[a-zA-Z0-9])?
hostnameLabel(l) ==
    /\ Len(l) >= 1
    /\ Len(l) <= 63
    /\ l[1] \in AlphaNum
    /\ l[Len(l)] \in AlphaNum
    /\ \A i \in 1..Len(l) : l[i] \in AlphaNum \cup {"-"}

\* parser.go:17: hostnameRegex, labels joined by single dots
hostnameRegex(h) ==
    LET labels == Split(h, <<".">>) IN \A i \in 1..Len(labels) : hostnameLabel(labels[i])

\* parser.go:246-256
isValidHostname(hostname) ==
    IF Len(hostname) = 0 \/ Len(hostname) > 253 THEN FALSE
    ELSE IF hostname = <<"l", "o", "c", "a", "l", "h", "o", "s", "t">> THEN TRUE
    ELSE hostnameRegex(hostname)

NoMatch == [ok |-> FALSE, g1 |-> <<>>, g2 |-> <<>>, g3 |-> <<>>, g4 |-> <<>>]

\* the rest of the line from k on matches (?:\s*#\s*(.*))?$
RestMatches(l, k) ==
    \/ k = Len(l) + 1
    \/ LET h == SkipSpaces(l, k) IN h <= Len(l) /\ l[h] = "#"

\* parser.go:15: (\S+)\s+(.+?)(?:\s*#\s*(.*))?$ from position s on, after a
\* first group g1. \S+ and \s+ are greedy, .+? takes the fewest characters
\* that let the rest match, and \s+ gives back one character only when
\* nothing else is left for .+? to take.
MatchFrom(l, s, g1) ==
    IF s > Len(l) \/ IsSpace(l[s]) THEN NoMatch
    ELSE LET e == SkipNonSpaces(l, s)
             w == SkipSpaces(l, e)
         IN  IF e > Len(l) THEN NoMatch
             ELSE IF w <= Len(l)
             THEN LET r == SetMin({k \in w..Len(l) : RestMatches(l, k + 1)})
                      h == SkipSpaces(l, r + 1)
                  IN  [ok |-> TRUE, g1 |-> g1, g2 |-> SubSeq(l, s, e - 1),
                       g3 |-> SubSeq(l, w, r),
                       g4 |-> IF r = Len(l) THEN <<>>
                              ELSE SubSeq(l, SkipSpaces(l, h + 1), Len(l))]
             ELSE IF w - e >= 2
             THEN [ok |-> TRUE, g1 |-> g1, g2 |-> SubSeq(l, s, e - 1),
                   g3 |-> SubSeq(l, Len(l), Len(l)), g4 |-> <<>>]
             ELSE NoMatch

\* parser.go:15: entryRegex.FindStringSubmatch(line), with the leftmost-first
\* choice of Go's regexp: the optional group (\s*#\s*)? is taken when the
\* rest matches after it, and skipped otherwise
entryRegex(l) ==
    LET first == SkipSpaces(l, 1)
        withHash == IF first <= Len(l) /\ l[first] = "#"
                    THEN MatchFrom(l, SkipSpaces(l, first + 1),
                                   SubSeq(l, 1, SkipSpaces(l, first + 1) - 1))
                    ELSE NoMatch
    IN  IF withHash.ok THEN withHash ELSE MatchFrom(l, 1, <<>>)

\* parser.go:87-90
isDisabledEntry(line) ==
    LET matches == entryRegex(line) IN matches.ok /\ TrimSpace(matches.g1) # <<>>

NoEntry == [id |-> 0, ip |-> <<>>, names |-> <<>>, comment |-> <<>>, disabled |-> FALSE]

\* parser.go:94-143: [kind |-> "nil"], an entry, or a ParseError. Entry.Raw,
\* which nothing reads, is left out.
parseLine(line, lineNum, entryID) ==
    IF TrimSpace(line) = <<>> THEN [kind |-> "nil"]
    ELSE LET matches == entryRegex(line) IN
         IF ~matches.ok
         THEN [kind |-> "error", line |-> lineNum, content |-> line, reason |-> "invalid line format"]
         ELSE LET disabled == TrimSpace(matches.g1) # <<>>
                  ip == TrimSpace(matches.g2)
                  hostnames == Fields(TrimSpace(matches.g3))
                  comment == TrimSpace(matches.g4)
              IN  IF ~isValidIP(ip)
                  THEN [kind |-> "error", line |-> lineNum, content |-> line, reason |-> "invalid IP address"]
                  ELSE IF \E i \in 1..Len(hostnames) : ~isValidHostname(hostnames[i])
                  THEN [kind |-> "error", line |-> lineNum, content |-> line, reason |-> "invalid hostname"]
                  ELSE [kind |-> "entry",
                        entry |-> [id |-> entryID, ip |-> ip, names |-> hostnames,
                                   comment |-> comment, disabled |-> disabled]]

\* parser.go:60: the lines Parse passes over without calling parseLine
IsSkippedLine(line) ==
    LET trimmed == TrimSpace(line) IN
    trimmed = <<>> \/ (trimmed[1] = "#" /\ ~isDisabledEntry(line))

\* parser.go:51-76: the loop over the lines, from line lineNum on, with the
\* next id to hand out in entryID
RECURSIVE ParseLoop(_, _, _, _, _)
ParseLoop(lines, lineNum, entryID, entries, strictMode) ==
    IF lineNum > Len(lines) THEN [ok |-> TRUE, entries |-> entries]
    ELSE IF IsSkippedLine(lines[lineNum])
    THEN ParseLoop(lines, lineNum + 1, entryID, entries, strictMode)
    ELSE LET r == parseLine(lines[lineNum], lineNum, entryID) IN
         IF r.kind = "error"
         THEN IF strictMode
              THEN [ok |-> FALSE, entries |-> <<>>, line |-> r.line,
                    content |-> r.content, reason |-> r.reason]
              ELSE ParseLoop(lines, lineNum + 1, entryID, entries, strictMode)
         ELSE IF r.kind = "entry"
         THEN ParseLoop(lines, lineNum + 1, entryID + 1, Append(entries, r.entry), strictMode)
         ELSE ParseLoop(lines, lineNum + 1, entryID, entries, strictMode)

\* parser.go:78-80: scanner.Err() once the loop has ended, r being what the loop has come to
\* and cut the start of a line too long for the Scanner
ScannerErr(cut, r) ==
    IF cut = 0 \/ ~r.ok THEN r
    ELSE [ok |-> FALSE, entries |-> <<>>, line |-> 0, content |-> <<>>,
          reason |-> "error reading input"]

\* a Parse whose first entry gets the id 0
ParseUpTo_FromZero(text, cut, strictMode) ==
    ScannerErr(cut, ParseLoop(ScanLines(IF cut = 0 THEN text ELSE SubSeq(text, 1, cut - 1)),
                              1, 0, <<>>, strictMode))

\* parser.go:51-76: the loop over the lines the Scanner delivers, those before cut
ParseUpTo(text, cut, strictMode) ==
    ScannerErr(cut, ParseLoop(ScanLines(IF cut = 0 THEN text ELSE SubSeq(text, 1, cut - 1)),
                              1, 1, <<>>, strictMode))

\* parser.go:46-83: Parse of a reader that delivers the bytes of text; the lines before one
\* that is too long for the Scanner are handled first, then scanner.Err() is returned
Parse(text, strictMode) == ParseUpTo(text, FirstTooLong(text), strictMode)

\* the line of a disabled entry written without its "# " prefix
EntryString_NoDisabledPrefix(e) ==
    e.ip \o Join([i \in 1..Len(e.names) |-> <<"\t">> \o e.names[i]], <<>>)
         \o (IF e.comment # <<>> THEN <<"\t", "#", " ">> \o e.comment ELSE <<>>)

\* model.go:62-77
EntryString(e) ==
    LET withNames == e.ip \o Join([i \in 1..Len(e.names) |-> <<"\t">> \o e.names[i]], <<>>)
        withComment == IF e.comment # <<>> THEN withNames \o <<"\t", "#", " ">> \o e.comment
                       ELSE withNames
    IN  IF e.disabled THEN <<"#", " ">> \o withComment ELSE withComment

\* the lines joined, without the newline after the last one
Serialize_NoFinalNewline(entries) ==
    Join([i \in 1..Len(entries) |-> EntryString(entries[i])], <<"\n">>)

\* parser.go:260-268
Serialize(entries) ==
    Join([i \in 1..Len(entries) |-> EntryString(entries[i])], <<"\n">>) \o <<"\n">>

-----------------------------------------------------------------------------
(* internal/hosts/model.go *)

\* the number of entries taken for the largest id
MaxID_Count(entries) == Len(entries)

\* model.go:130-136
MaxID(entries) ==
    IF entries = <<>> THEN 0
    ELSE LET I == {entries[i].id : i \in 1..Len(entries)} \cup {0}
         IN  CHOOSE m \in I : \A x \in I : x <= m

\* the new entry put in front of the others
AddEntry_Prepend(entries, entry) ==
    <<[entry EXCEPT !.id = IF Len(entries) = 0 THEN 1 ELSE MaxID(entries) + 1]>> \o entries

\* model.go:126-139
AddEntry(entries, entry) ==
    Append(entries, [entry EXCEPT !.id = IF Len(entries) = 0 THEN 1 ELSE MaxID(entries) + 1])

-----------------------------------------------------------------------------
(* The file system *)

\* commands.go:52: the default of --hosts-file, and the path requiresRoot names
EtcHosts == "/etc/hosts"

\* a hosts file somewhere else (--hosts-file)
HostsPath == "/tmp/hosts"

StorePaths == {EtcHosts, HostsPath}

\* flock.go:41, flock.go:81, flock.go:118: fl.path + ".lock"
LockFilePath(path) == path \o ".lock"

\* store.go:60: s.path + ".tmp"
TempPath(path) == path \o ".tmp"

\* time.Now().Format("20060102-150405"): the text of second t of the clock
TimeStamp(t) == ToString(t)

\* store.go:75-76, store.go:122-123: fmt.Sprintf("%s.hostsctl.%s.bak", s.path, timestamp)
BackupPath(path, t) == path \o ".hostsctl." \o TimeStamp(t) \o ".bak"

Clock == 0..MaxClock

\* a path a caller of Backup or Restore chooses itself
OutPath == "/tmp/out.bak"

Paths ==
    UNION {{f, LockFilePath(f), TempPath(f)} \cup {BackupPath(f, t) : t \in Clock} :
              f \in StorePaths}
    \cup {OutPath}

\* enough inodes for every directory entry and every open handle
Inodes == 1..(Cardinality(Paths) + 4 * NProcs)

NoFile == 0

\* the inodes the handles l, s, d and r of the processes are open on
Handles(l, s, d, r) ==
    ({l[p] : p \in Procs} \cup {s[p] : p \in Procs} \cup
     {d[p] : p \in Procs} \cup {r[p] : p \in Procs}) \ {NoFile}

OpenInodes == Handles(lfile, src, dst, rfd)

LinkedInodes == {dir[f] : f \in Paths} \ {NoFile}

\* the inode a creating open(2) allocates: one no name and no handle refers to
FreeInode == CHOOSE i \in Inodes : i \notin (OpenInodes \cup LinkedInodes) /\
                 \A j \in Inodes : j \notin (OpenInodes \cup LinkedInodes) => i <= j

\* the bytes of the inodes still referenced once the directory is d and the open
\* handles are o: an inode with no name and no handle is gone
Collect(bytes, d, o) ==
    [i \in Inodes |-> IF i \in o \/ \E f \in Paths : d[f] = i THEN bytes[i] ELSE <<>>]

\* what is at path f: the bytes of the file, or that there is none
NoSuchFile == <<"ENOENT">>

Bytes(f) == IF dir[f] = NoFile THEN NoSuchFile ELSE data[dir[f]]

\* fmt.Sprintf("%d\n", os.Getpid()): process p runs with pid 41 + p
PidDigits(p) == IF p = 1 THEN <<"4", "2">> ELSE IF p = 2 THEN <<"7">> ELSE <<"9", "9", "9">>

PidLine(p) == PidDigits(p) \o <<"\n">>

\* write(2) of new from offset 0 of a handle: the bytes the file already has
\* beyond them stay
Overwrite(old, new) ==
    [i \in 1..(IF Len(old) > Len(new) THEN Len(old) ELSE Len(new)) |->
        IF i <= Len(new) THEN new[i] ELSE old[i]]

-----------------------------------------------------------------------------
(* internal/lock/flock.go *)

\* flock(fd, LOCK_EX|LOCK_NB) succeeds iff no other open file description
\* holds a lock on the inode
FlockFree(ino) == flock[ino] = 0

\* the call of p returns r to its caller
Return(p, r) ==
    /\ pc' = [pc EXCEPT ![p] = "idle"]
    /\ res' = [res EXCEPT ![p] = r]
    /\ elapsed' = [elapsed EXCEPT ![p] = 0]

\* file.Close() of the lock handle of p (flock.go:61, 66, 88, 117)
CloseLockFile(p) ==
    /\ lfile' = [lfile EXCEPT ![p] = NoFile]
    /\ data' = Collect(data, dir, Handles([lfile EXCEPT ![p] = NoFile], src, dst, rfd))

\* os.OpenFile(fl.path+".lock", os.O_CREATE|os.O_WRONLY, 0600): the inode the
\* name is linked to, or a new empty file linked there
OpenLockFile(p) ==
    LET f == LockFilePath(spath) IN
    IF dir[f] # NoFile
    THEN /\ lfile' = [lfile EXCEPT ![p] = dir[f]]
         /\ UNCHANGED <<dir, data>>
    ELSE /\ dir' = [dir EXCEPT ![f] = FreeInode]
         /\ data' = [data EXCEPT ![FreeInode] = <<>>]
         /\ lfile' = [lfile EXCEPT ![p] = FreeInode]

\* a TryLock that does not look at fl.acquired
TryLockCall_Reentrant(p) ==
    /\ pc[p] = "idle"
    /\ pc' = [pc EXCEPT ![p] = "try_open"]
    /\ UNCHANGED <<dir, data, flock, now, res, lockVars, storeSide>>

\* flock.go:76-79
TryLockCall(p) ==
    /\ pc[p] = "idle"
    /\ IF acquired[p]
       THEN Return(p, "err_already_acquired")
       ELSE pc' = [pc EXCEPT ![p] = "try_open"] /\ UNCHANGED <<res, elapsed>>
    /\ UNCHANGED <<dir, data, flock, now, lfile, acquired, inWith, invoked, fnres, storeSide>>

\* flock.go:81-84
TryLockOpen(p) ==
    /\ pc[p] = "try_open"
    /\ OpenLockFile(p)
    /\ pc' = [pc EXCEPT ![p] = "try_flock"]
    /\ UNCHANGED <<flock, now, acquired, elapsed, inWith, invoked, fnres, res, storeSide>>

\* flock.go:86-96
TryLockFlock(p) ==
    /\ pc[p] = "try_flock"
    /\ IF FlockFree(lfile[p])
       THEN /\ flock' = [flock EXCEPT ![lfile[p]] = p]
            /\ acquired' = [acquired EXCEPT ![p] = TRUE]
            /\ pc' = [pc EXCEPT ![p] = "try_write"]
            /\ UNCHANGED <<lfile, data, res, elapsed>>
       ELSE /\ CloseLockFile(p)
            /\ Return(p, "err_held_by_another")
            /\ UNCHANGED <<flock, acquired>>
    /\ UNCHANGED <<dir, now, inWith, invoked, fnres, storeSide>>

\* flock.go:98-102
TryLockWrite(p) ==
    /\ pc[p] = "try_write"
    /\ data' = [data EXCEPT ![lfile[p]] = Overwrite(@, PidLine(p))]
    /\ Return(p, "ok")
    /\ UNCHANGED <<dir, flock, now, lfile, acquired, inWith, invoked, fnres, storeSide>>

\* what a call of LockWithTimeout hands back: to WithLock when it made the
\* call (flock.go:136-138), to the process otherwise
LockReturn(p, r) ==
    IF inWith[p] /\ r = "ok"
    THEN /\ pc' = [pc EXCEPT ![p] = "wl_fn"]
         /\ elapsed' = [elapsed EXCEPT ![p] = 0]
         /\ UNCHANGED <<res, inWith>>
    ELSE /\ Return(p, r)
         /\ inWith' = [inWith EXCEPT ![p] = FALSE]

\* flock.go:36-39
LockWithTimeoutCall(p) ==
    /\ pc[p] = "idle"
    /\ IF acquired[p]
       THEN Return(p, "err_already_acquired")
       ELSE pc' = [pc EXCEPT ![p] = "lwt_open"] /\ UNCHANGED <<res, elapsed>>
    /\ UNCHANGED <<dir, data, flock, now, lfile, acquired, inWith, invoked, fnres, storeSide>>

\* flock.go:41-46: the handle is opened once, before the polling loop
LockWithTimeoutOpen(p) ==
    /\ pc[p] = "lwt_open"
    /\ OpenLockFile(p)
    /\ pc' = [pc EXCEPT ![p] = "lwt_flock"]
    /\ elapsed' = [elapsed EXCEPT ![p] = 0]
    /\ UNCHANGED <<flock, now, acquired, inWith, invoked, fnres, res, storeSide>>

\* a deadline that has always passed
DeadlinePassed_AtOnce(p) == TRUE

\* flock.go:65: time.Now().After(deadline)
DeadlinePassed(p) == elapsed[p] > TimeoutPolls

\* flock.go:48-51 and 60-70
LockWithTimeoutFlock(p) ==
    /\ pc[p] = "lwt_flock"
    /\ IF FlockFree(lfile[p])
       THEN /\ flock' = [flock EXCEPT ![lfile[p]] = p]
            /\ acquired' = [acquired EXCEPT ![p] = TRUE]
            /\ pc' = [pc EXCEPT ![p] = "lwt_write"]
            /\ UNCHANGED <<lfile, data, res, inWith, elapsed>>
       ELSE IF DeadlinePassed(p)
            THEN /\ CloseLockFile(p)
                 /\ LockReturn(p, "err_timeout")
                 /\ UNCHANGED <<flock, acquired>>
            ELSE /\ pc' = [pc EXCEPT ![p] = "lwt_sleep"]
                 /\ UNCHANGED <<flock, acquired, lfile, data, res, inWith, elapsed>>
    /\ UNCHANGED <<dir, now, invoked, fnres, storeSide>>

\* flock.go:53-57
LockWithTimeoutWrite(p) ==
    /\ pc[p] = "lwt_write"
    /\ data' = [data EXCEPT ![lfile[p]] = Overwrite(@, PidLine(p))]
    /\ LockReturn(p, "ok")
    /\ UNCHANGED <<dir, flock, now, lfile, acquired, invoked, fnres, storeSide>>

\* a process inside the polling loop of LockWithTimeout (flock.go:47-71)
Waiting(p) == pc[p] \in {"lwt_flock", "lwt_sleep"}

\* One poll interval passes: time.Sleep(100 * time.Millisecond) (flock.go:70)
\* ends, and every pending deadline comes one interval closer.
Tick ==
    /\ \E p \in Procs : Waiting(p) /\ (pc[p] = "lwt_sleep" \/ ~DeadlinePassed(p))
    /\ elapsed' = [p \in Procs |->
                     IF Waiting(p) /\ ~DeadlinePassed(p)
                     THEN elapsed[p] + 1 ELSE elapsed[p]]
    /\ pc' = [p \in Procs |-> IF pc[p] = "lwt_sleep" THEN "lwt_flock" ELSE pc[p]]
    /\ UNCHANGED <<dir, data, flock, now, lfile, acquired, inWith, invoked, fnres, res, storeSide>>

\* flock.go:107-110
UnlockCall(p) ==
    /\ pc[p] = "idle"
    /\ IF ~acquired[p]
       THEN Return(p, "err_not_acquired")
       ELSE pc' = [pc EXCEPT ![p] = "un_flock"] /\ UNCHANGED <<res, elapsed>>
    /\ UNCHANGED <<dir, data, flock, now, lfile, acquired, inWith, invoked, fnres, storeSide>>

\* flock.go:112-115: flock(fd, LOCK_UN) on the handle that holds the lock
UnlockFlock(p) ==
    /\ pc[p] = "un_flock"
    /\ flock' = [flock EXCEPT ![lfile[p]] = IF @ = p THEN 0 ELSE @]
    /\ pc' = [pc EXCEPT ![p] = "un_close"]
    /\ UNCHANGED <<dir, data, now, lfile, acquired, elapsed, inWith, invoked, fnres, res, storeSide>>

\* flock.go:117
UnlockClose(p) ==
    /\ pc[p] = "un_close"
    /\ CloseLockFile(p)
    /\ pc' = [pc EXCEPT ![p] = "un_remove"]
    /\ UNCHANGED <<dir, flock, now, acquired, elapsed, inWith, invoked, fnres, res, storeSide>>

\* flock.go:139-141: with the deferred Unlock done, WithLock returns what fn
\* returned (or goes on panicking with what fn panicked with)
WithLockResult(p) == fnres[p]

\* flock.go:118-123: os.Remove unlinks whatever the name refers to now
UnlockRemove(p) ==
    /\ pc[p] = "un_remove"
    /\ dir' = [dir EXCEPT ![LockFilePath(spath)] = NoFile]
    /\ data' = Collect(data, dir', OpenInodes)
    /\ acquired' = [acquired EXCEPT ![p] = FALSE]
    /\ Return(p, IF inWith[p] THEN WithLockResult(p) ELSE "ok")
    /\ inWith' = [inWith EXCEPT ![p] = FALSE]
    /\ UNCHANGED <<flock, now, lfile, invoked, fnres, storeSide>>

\* flock.go:133-136: lock := NewFileLock(path); lock.LockWithTimeout(timeout).
\* The instance of p stands for the new instance, which starts released.
WithLockCall(p) ==
    /\ pc[p] = "idle"
    /\ ~acquired[p]
    /\ inWith' = [inWith EXCEPT ![p] = TRUE]
    /\ invoked' = [invoked EXCEPT ![p] = 0]
    /\ fnres' = [fnres EXCEPT ![p] = "none"]
    /\ pc' = [pc EXCEPT ![p] = "lwt_open"]
    /\ UNCHANGED <<dir, data, flock, now, lfile, acquired, elapsed, res, storeSide>>

\* what fn can do: return nil, return an error, panic
FnOutcomes == {"fn_ok", "fn_error", "fn_panic"}

\* an Unlock that is called after fn instead of deferred: skipped by a panic
AfterFn_NotDeferred(r) == IF r = "fn_panic" THEN "idle" ELSE "un_flock"

\* flock.go:139: defer lock.Unlock() runs when fn returns and when it panics
AfterFn(r) == "un_flock"

\* flock.go:141: return fn()
WithLockFn(p) ==
    /\ pc[p] = "wl_fn"
    /\ \E r \in FnOutcomes :
        /\ fnres' = [fnres EXCEPT ![p] = r]
        /\ pc' = [pc EXCEPT ![p] = AfterFn(r)]
    /\ invoked' = [invoked EXCEPT ![p] = @ + 1]
    /\ UNCHANGED <<dir, data, flock, now, lfile, acquired, elapsed, inWith, res, storeSide>>

-----------------------------------------------------------------------------
(* internal/hosts/store.go *)

\* what a call returns when the bytes asked for do not exist
NoInfo == [path |-> "", original |-> "", size |-> 0]

\* nothing read yet
NotRead == <<"unread">>

\* a requiresRoot that lets everybody through
RequiresRootFails_Never == FALSE

\* store.go:110-115: s.path == "/etc/hosts" && os.Geteuid() != 0
RequiresRootFails == spath = EtcHosts /\ euid # 0

\* the lengths at which a failing write(2) or copy can stop short of n bytes
PartialLens(n) == {0, n \div 2}

\* os.Open(f): the inode of the file, NoFile when there is none or open(2) fails
OpenForRead(f, fault) == IF fault \/ dir[f] = NoFile THEN NoFile ELSE dir[f]

\* os.Create(f), i.e. O_RDWR|O_CREATE|O_TRUNC: the inode linked at f, or a new one
CreateInode(f) == IF dir[f] # NoFile THEN dir[f] ELSE FreeInode

\* the Store method of p returns r to its caller: the process itself, or the
\* command it runs
StoreReturn(p, r) ==
    /\ pc' = [pc EXCEPT ![p] = IF cmd[p] = "none" THEN "idle" ELSE "cli_ret"]
    /\ res' = [res EXCEPT ![p] = r]

\* the deferred backupFile.Close() of Restore (store.go:166), run when the
\* Save it called returns
CloseRestoreFile(p) == rfd' = [rfd EXCEPT ![p] = NoFile]

\* a Save that goes on to the temporary file without a backup
EnterSave_NoBackup(p, h) ==
    IF RequiresRootFails
    THEN /\ StoreReturn(p, "err_permission")
         /\ UNCHANGED <<content, bpath>>
    ELSE /\ content' = [content EXCEPT ![p] = Serialize(h)]
         /\ bpath' = [bpath EXCEPT ![p] = BackupPath(spath, now)]
         /\ pc' = [pc EXCEPT ![p] = "sv_tmp"]
         /\ UNCHANGED res

\* store.go:49-55 and 75: requiresRoot, Serialize, the name of the backup
EnterSave(p, h) ==
    IF RequiresRootFails
    THEN /\ StoreReturn(p, "err_permission")
         /\ UNCHANGED <<content, bpath>>
    ELSE /\ content' = [content EXCEPT ![p] = Serialize(h)]
         /\ bpath' = [bpath EXCEPT ![p] = BackupPath(spath, now)]
         /\ pc' = [pc EXCEPT ![p] = "sv_open"]
         /\ UNCHANGED res

\* the HostsFile values a caller passes to Save
SaveEntry == [id |-> 1, ip |-> <<":", ":", "1">>, names |-> << <<"a">> >>,
              comment |-> <<>>, disabled |-> FALSE]

SaveInputs == {<<>>, <<SaveEntry>>}

\* store.go:48-55: a caller calls Save(hostsFile)
SaveCall(p) ==
    /\ pc[p] = "idle"
    /\ nops < MaxOps
    /\ \E h \in SaveInputs :
        /\ hf' = [hf EXCEPT ![p] = h]
        /\ EnterSave(p, h)
    /\ op' = [op EXCEPT ![p] = "save"]
    /\ nops' = nops + 1
    /\ pre' = [pre EXCEPT ![p] = Bytes(spath)]
    /\ UNCHANGED <<dir, data, flock, now, lockVars, ctxVars, modelVars, src, dst, rfd, info, obs, rsrc, stamp, ncmd, added, kept>>

\* store.go:77-81: sourceFile, err := os.Open(s.path)
SaveBackupOpen(p) ==
    /\ pc[p] = "sv_open"
    /\ \E fault \in BOOLEAN :
        LET ino == OpenForRead(spath, fault) IN
        IF ino = NoFile
        THEN /\ StoreReturn(p, "err_backup")
             /\ CloseRestoreFile(p)
             /\ data' = Collect(data, dir, Handles(lfile, src, dst, rfd'))
             /\ UNCHANGED src
        ELSE /\ src' = [src EXCEPT ![p] = ino]
             /\ pc' = [pc EXCEPT ![p] = "sv_create"]
             /\ UNCHANGED <<res, rfd, data>>
    /\ UNCHANGED <<dir, flock, now, lockVars, ctxVars, modelVars, op, hf, content, dst, bpath, info, histVars>>

\* store.go:83-87: backupFile, err := os.Create(backupPath)
SaveBackupCreate(p) ==
    /\ pc[p] = "sv_create"
    /\ \E fault \in BOOLEAN :
        IF fault
        THEN /\ src' = [src EXCEPT ![p] = NoFile]
             /\ CloseRestoreFile(p)
             /\ StoreReturn(p, "err_backup")
             /\ data' = Collect(data, dir, Handles(lfile, src', dst, rfd'))
             /\ UNCHANGED <<dir, dst>>
        ELSE LET ino == CreateInode(bpath[p]) IN
             /\ dir' = [dir EXCEPT ![bpath[p]] = ino]
             /\ dst' = [dst EXCEPT ![p] = ino]
             /\ data' = [data EXCEPT ![ino] = <<>>]
             /\ pc' = [pc EXCEPT ![p] = "sv_copy"]
             /\ UNCHANGED <<res, src, rfd>>
    /\ UNCHANGED <<flock, now, lockVars, ctxVars, modelVars, op, hf, content, bpath, info, histVars>>

\* a backup that copies what is about to be written
BackupBytes_NewContent(p) == content[p]

\* store.go:89: io.Copy(backupFile, sourceFile)
BackupBytes(p) == data[src[p]]

\* store.go:89-90 and 56-58: the copy, the deferred closes, the return to Save
SaveBackupCopy(p) ==
    /\ pc[p] = "sv_copy"
    /\ \E fault \in BOOLEAN : \E k \in PartialLens(Len(data[src[p]])) :
        /\ src' = [src EXCEPT ![p] = NoFile]
        /\ dst' = [dst EXCEPT ![p] = NoFile]
        /\ IF fault
           THEN /\ CloseRestoreFile(p)
                /\ StoreReturn(p, "err_backup")
           ELSE /\ pc' = [pc EXCEPT ![p] = "sv_tmp"]
                /\ UNCHANGED <<res, rfd>>
        /\ data' = Collect([data EXCEPT ![dst[p]] =
                               Overwrite(@, IF fault THEN SubSeq(data[src[p]], 1, k)
                                            ELSE BackupBytes(p))],
                           dir, Handles(lfile, src', dst', rfd'))
    /\ UNCHANGED <<dir, flock, now, lockVars, ctxVars, modelVars, op, hf, content, bpath, info, histVars>>

\* a Save that writes the new text over the canonical file itself
TempPath_InPlace(path) == path

\* store.go:60: tempPath := s.path + ".tmp"
SaveTempPath(path) == TempPath(path)

\* store.go:95-99: tempFile, err := os.Create(tempPath)
SaveTempCreate(p) ==
    /\ pc[p] = "sv_tmp"
    /\ \E fault \in BOOLEAN :
        IF fault
        THEN /\ CloseRestoreFile(p)
             /\ StoreReturn(p, "err_write_temp")
             /\ data' = Collect(data, dir, Handles(lfile, src, dst, rfd'))
             /\ UNCHANGED <<dir, dst>>
        ELSE LET ino == CreateInode(SaveTempPath(spath)) IN
             /\ dir' = [dir EXCEPT ![SaveTempPath(spath)] = ino]
             /\ dst' = [dst EXCEPT ![p] = ino]
             /\ data' = [data EXCEPT ![ino] = <<>>]
             /\ pc' = [pc EXCEPT ![p] = "sv_write"]
             /\ UNCHANGED <<res, rfd>>
    /\ UNCHANGED <<flock, now, lockVars, ctxVars, modelVars, op, hf, content, src, bpath, info, histVars>>

\* a writeTemp that drops the error of WriteString
WriteFailed_Ignored(fault) == FALSE

\* store.go:101: if _, err := tempFile.WriteString(content); err != nil
WriteFailed(fault) == fault

\* store.go:101-103: a failing write leaves some of the bytes, or none
SaveTempWrite(p) ==
    /\ pc[p] = "sv_write"
    /\ \E fault \in BOOLEAN : \E k \in PartialLens(Len(content[p])) :
        /\ IF WriteFailed(fault)
           THEN /\ dst' = [dst EXCEPT ![p] = NoFile]
                /\ CloseRestoreFile(p)
                /\ StoreReturn(p, "err_write_temp")
           ELSE /\ pc' = [pc EXCEPT ![p] = "sv_sync"]
                /\ UNCHANGED <<res, dst, rfd>>
        /\ data' = Collect([data EXCEPT ![dst[p]] =
                               Overwrite(@, IF fault THEN SubSeq(content[p], 1, k)
                                            ELSE content[p])],
                           dir, Handles(lfile, src, dst', rfd'))
    /\ UNCHANGED <<dir, flock, now, lockVars, ctxVars, modelVars, op, hf, content, src, bpath, info, histVars>>

\* store.go:105 and 61-63: return tempFile.Sync(), with the deferred Close
SaveTempSync(p) ==
    /\ pc[p] = "sv_sync"
    /\ dst' = [dst EXCEPT ![p] = NoFile]
    /\ \E fault \in BOOLEAN :
        IF fault
        THEN /\ CloseRestoreFile(p)
             /\ StoreReturn(p, "err_write_temp")
        ELSE /\ pc' = [pc EXCEPT ![p] = "sv_rename"]
             /\ UNCHANGED <<res, rfd>>
    /\ data' = Collect(data, dir, Handles(lfile, src, dst', rfd'))
    /\ UNCHANGED <<dir, flock, now, lockVars, ctxVars, modelVars, op, hf, content, src, bpath, info, histVars>>

\* store.go:65: os.Rename(tempPath, s.path). rename(2) of a name onto itself
\* does nothing; an inode that loses its last name and has no handle is gone.
SaveRename(p) ==
    /\ pc[p] = "sv_rename"
    /\ \E fault \in BOOLEAN :
        LET t == SaveTempPath(spath) IN
        IF fault \/ dir[t] = NoFile
        THEN /\ pc' = [pc EXCEPT ![p] = "sv_remove"]
             /\ UNCHANGED <<dir, data>>
        ELSE /\ dir' = IF t = spath THEN dir
                       ELSE [dir EXCEPT ![spath] = dir[t], ![t] = NoFile]
             /\ pc' = [pc EXCEPT ![p] = "sv_done"]
             /\ data' = Collect(data, dir', OpenInodes)
    /\ UNCHANGED <<flock, now, res, lockVars, ctxVars, modelVars, storeVars, histVars>>

\* store.go:66-67: os.Remove(tempPath) and the error of the rename
SaveRemove(p) ==
    /\ pc[p] = "sv_remove"
    /\ dir' = [dir EXCEPT ![SaveTempPath(spath)] = NoFile]
    /\ CloseRestoreFile(p)
    /\ StoreReturn(p, "err_rename")
    /\ data' = Collect(data, dir', Handles(lfile, src, dst, rfd'))
    /\ UNCHANGED <<flock, now, lockVars, ctxVars, modelVars, op, hf, content, src, dst, bpath, info, histVars>>

\* store.go:70: return nil
SaveDone(p) ==
    /\ pc[p] = "sv_done"
    /\ CloseRestoreFile(p)
    /\ StoreReturn(p, "ok")
    /\ data' = Collect(data, dir, Handles(lfile, src, dst, rfd'))
    /\ kept' = kept \cup {[path |-> bpath[p], bytes |-> pre[p]]}
    /\ UNCHANGED <<dir, flock, now, lockVars, ctxVars, modelVars, op, hf, content, src, dst, bpath, info,
                   obs, pre, rsrc, nops, stamp, ncmd, added>>

\* the outputPath values a caller passes to Backup: none, a path of its own,
\* the path of the hosts file
OutputPaths == {"", OutPath, spath}

\* store.go:120-123
BackupCall(p) ==
    /\ pc[p] = "idle"
    /\ nops < MaxOps
    /\ \E outputPath \in OutputPaths :
        bpath' = [bpath EXCEPT ![p] = IF outputPath = "" THEN BackupPath(spath, now)
                                      ELSE outputPath]
    /\ op' = [op EXCEPT ![p] = "backup"]
    /\ info' = [info EXCEPT ![p] = NoInfo]
    /\ pc' = [pc EXCEPT ![p] = "bu_open"]
    /\ nops' = nops + 1
    /\ pre' = [pre EXCEPT ![p] = Bytes(spath)]
    /\ UNCHANGED <<dir, data, flock, now, res, lockVars, ctxVars, modelVars, hf, content, src, dst, rfd,
                   obs, rsrc, stamp, ncmd, added, kept>>

\* store.go:125-134: os.Open(s.path) and sourceFile.Stat()
BackupOpen(p) ==
    /\ pc[p] = "bu_open"
    /\ \E fault \in {"none", "open", "stat"} :
        LET ino == OpenForRead(spath, fault = "open") IN
        IF ino = NoFile
        THEN /\ StoreReturn(p, "err_open_source")
             /\ UNCHANGED <<src, info>>
        ELSE IF fault = "stat"
        THEN /\ StoreReturn(p, "err_stat_source")
             /\ UNCHANGED <<src, info>>
        ELSE /\ src' = [src EXCEPT ![p] = ino]
             /\ info' = [info EXCEPT ![p] = [NoInfo EXCEPT !.size = Len(data[ino])]]
             /\ pc' = [pc EXCEPT ![p] = "bu_create"]
             /\ UNCHANGED res
    /\ UNCHANGED <<dir, data, flock, now, lockVars, ctxVars, modelVars, op, hf, content, dst, rfd, bpath,
                   histVars>>

\* store.go:136-140: backupFile, err := os.Create(outputPath)
BackupCreate(p) ==
    /\ pc[p] = "bu_create"
    /\ \E fault \in BOOLEAN :
        IF fault
        THEN /\ src' = [src EXCEPT ![p] = NoFile]
             /\ info' = [info EXCEPT ![p] = NoInfo]
             /\ StoreReturn(p, "err_create_backup")
             /\ data' = Collect(data, dir, Handles(lfile, src', dst, rfd))
             /\ UNCHANGED <<dir, dst>>
        ELSE LET ino == CreateInode(bpath[p]) IN
             /\ dir' = [dir EXCEPT ![bpath[p]] = ino]
             /\ dst' = [dst EXCEPT ![p] = ino]
             /\ data' = [data EXCEPT ![ino] = <<>>]
             /\ pc' = [pc EXCEPT ![p] = "bu_copy"]
             /\ UNCHANGED <<res, src, info>>
    /\ UNCHANGED <<flock, now, lockVars, ctxVars, modelVars, op, hf, content, rfd, bpath, histVars>>

\* store.go:142-152: io.Copy(backupFile, sourceFile) and the BackupInfo
BackupCopy(p) ==
    /\ pc[p] = "bu_copy"
    /\ \E fault \in BOOLEAN : \E k \in PartialLens(Len(data[src[p]])) :
        /\ src' = [src EXCEPT ![p] = NoFile]
        /\ dst' = [dst EXCEPT ![p] = NoFile]
        /\ IF fault
           THEN /\ info' = [info EXCEPT ![p] = NoInfo]
                /\ StoreReturn(p, "err_copy")
           ELSE /\ info' = [info EXCEPT ![p] = [path |-> bpath[p], original |-> spath,
                                                size |-> info[p].size]]
                /\ StoreReturn(p, "ok")
        /\ data' = Collect([data EXCEPT ![dst[p]] =
                               Overwrite(@, IF fault THEN SubSeq(data[src[p]], 1, k)
                                            ELSE data[src[p]])],
                           dir, Handles(lfile, src', dst', rfd))
    /\ UNCHANGED <<dir, flock, now, lockVars, ctxVars, modelVars, op, hf, content, rfd, bpath, histVars>>

\* the backupPath values a caller passes to Restore
RestorePaths == {OutPath, spath} \cup {BackupPath(spath, t) : t \in Clock}

\* store.go:157-160
RestoreCall(p) ==
    /\ pc[p] = "idle"
    /\ nops < MaxOps
    /\ \E backupPath \in RestorePaths :
        /\ bpath' = [bpath EXCEPT ![p] = backupPath]
        /\ rsrc' = [rsrc EXCEPT ![p] = Bytes(backupPath)]
    /\ IF RequiresRootFails
       THEN StoreReturn(p, "err_permission")
       ELSE pc' = [pc EXCEPT ![p] = "rs_open"] /\ UNCHANGED res
    /\ op' = [op EXCEPT ![p] = "restore"]
    /\ nops' = nops + 1
    /\ pre' = [pre EXCEPT ![p] = Bytes(spath)]
    /\ UNCHANGED <<dir, data, flock, now, lockVars, ctxVars, modelVars, hf, content, src, dst, rfd, info,
                   obs, stamp, ncmd, added, kept>>

\* store.go:162-166: backupFile, err := os.Open(backupPath)
RestoreOpen(p) ==
    /\ pc[p] = "rs_open"
    /\ \E fault \in BOOLEAN :
        LET ino == OpenForRead(bpath[p], fault) IN
        IF ino = NoFile
        THEN /\ StoreReturn(p, "err_open_backup")
             /\ UNCHANGED rfd
        ELSE /\ rfd' = [rfd EXCEPT ![p] = ino]
             /\ pc' = [pc EXCEPT ![p] = "rs_parse"]
             /\ UNCHANGED res
    /\ UNCHANGED <<dir, data, flock, now, lockVars, ctxVars, modelVars, op, hf, content, src, dst, bpath,
                   info, histVars>>

\* a Restore that never parses in strict mode
RestoreParsed_Lenient(p) == Parse(data[rfd[p]], FALSE)

\* store.go:168: s.parser.Parse(backupFile)
RestoreParsed(p) == Parse(data[rfd[p]], strict)

\* store.go:168-174: a failed read (scanner.Err) or a ParseError ends Restore,
\* otherwise Restore goes into Save
RestoreParse(p) ==
    /\ pc[p] = "rs_parse"
    /\ \E fault \in BOOLEAN :
        LET r == RestoreParsed(p) IN
        IF fault \/ ~r.ok
        THEN /\ CloseRestoreFile(p)
             /\ StoreReturn(p, "err_parse_backup")
             /\ data' = Collect(data, dir, Handles(lfile, src, dst, rfd'))
             /\ UNCHANGED <<hf, content, bpath>>
        ELSE /\ hf' = [hf EXCEPT ![p] = r.entries]
             /\ EnterSave(p, r.entries)
             /\ rfd' = IF RequiresRootFails THEN [rfd EXCEPT ![p] = NoFile] ELSE rfd
             /\ data' = Collect(data, dir, Handles(lfile, src, dst, rfd'))
    /\ UNCHANGED <<dir, flock, now, lockVars, ctxVars, modelVars, op, src, dst, info, histVars>>

\* a Store call of some process that can replace the canonical file is under way
SaveUnderWay == \E w \in Procs : pc[w] # "idle" /\ op[w] \in {"save", "restore"}

\* a process that takes no lock opens the canonical file to read it
ReadOpen(p) ==
    /\ pc[p] = "idle"
    /\ dir[spath] # NoFile
    /\ src' = [src EXCEPT ![p] = dir[spath]]
    /\ op' = [op EXCEPT ![p] = "read"]
    /\ stamp' = [stamp EXCEPT ![p] = IF SaveUnderWay THEN nops ELSE 0]
    /\ pc' = [pc EXCEPT ![p] = "rd_read"]
    /\ UNCHANGED <<dir, data, flock, now, res, lockVars, ctxVars, modelVars, hf, content, dst, rfd, bpath,
                   info, obs, pre, rsrc, nops, ncmd, added, kept>>

\* it reads the file to the end
ReadAll(p) ==
    /\ pc[p] = "rd_read"
    /\ obs' = [obs EXCEPT ![p] = data[src[p]]]
    /\ pc' = [pc EXCEPT ![p] = "rd_close"]
    /\ UNCHANGED <<dir, data, flock, now, res, lockVars, ctxVars, modelVars, storeVars, pre, rsrc, nops, stamp, ncmd, added, kept>>

\* and closes it
ReadClose(p) ==
    /\ pc[p] = "rd_close"
    /\ src' = [src EXCEPT ![p] = NoFile]
    /\ obs' = [obs EXCEPT ![p] = NotRead]
    /\ stamp' = [stamp EXCEPT ![p] = 0]
    /\ pc' = [pc EXCEPT ![p] = "idle"]
    /\ data' = Collect(data, dir, Handles(lfile, src', dst, rfd))
    /\ UNCHANGED <<dir, flock, now, res, lockVars, ctxVars, modelVars, op, hf, content, dst, rfd, bpath,
                   info, pre, rsrc, nops, ncmd, added, kept>>

\* a second of the wall clock passes
ClockTick ==
    /\ now < MaxClock
    /\ now' = now + 1
    /\ UNCHANGED <<dir, data, flock, pc, res, lockVars, ctxVars, modelVars, storeVars, histVars>>

-----------------------------------------------------------------------------
(* internal/hosts/store.go: Load *)

\* store.go:30-34: file, err := os.Open(s.path)
LoadOpen(p) ==
    /\ pc[p] = "ld_open"
    /\ \E fault \in BOOLEAN :
        LET ino == OpenForRead(spath, fault) IN
        IF ino = NoFile
        THEN /\ StoreReturn(p, "err_open_hosts")
             /\ UNCHANGED src
        ELSE /\ src' = [src EXCEPT ![p] = ino]
             /\ pc' = [pc EXCEPT ![p] = "ld_parse"]
             /\ UNCHANGED res
    /\ UNCHANGED <<dir, data, flock, now, lockVars, ctxVars, modelVars, op, hf, content, dst, rfd, bpath,
                   info, histVars>>

\* store.go:36-42: s.parser.Parse(file), with the deferred file.Close()
LoadParse(p) ==
    /\ pc[p] = "ld_parse"
    /\ src' = [src EXCEPT ![p] = NoFile]
    /\ \E fault \in BOOLEAN :
        LET r == Parse(data[src[p]], strict) IN
        IF fault \/ ~r.ok
        THEN /\ StoreReturn(p, "err_parse_hosts")
             /\ UNCHANGED hf
        ELSE /\ hf' = [hf EXCEPT ![p] = r.entries]
             /\ StoreReturn(p, "ok")
    /\ data' = Collect(data, dir, Handles(lfile, src', dst, rfd))
    /\ UNCHANGED <<dir, flock, now, lockVars, ctxVars, modelVars, op, content, dst, rfd, bpath, info,
                   histVars>>

-----------------------------------------------------------------------------
(* internal/cli/commands.go: hostsctl add *)

\* the host names the add commands are given: one per command, all distinct
HostNames == <<"a", "b", "c", "d", "e", "f", "g", "h", "i", "j", "k", "l", "m", "n", "o", "p">>

\* the name of the k-th command of p
AddName(p, k) == <<HostNames[(p - 1) * (MaxCmds + 1) + k]>>

\* commands.go:314-318: entry := hosts.Entry{IP: pkg.NormalizeIP(ip), Names: names, Comment: comment}
AddedEntry(p) ==
    [id |-> 0, ip |-> <<":", ":", "1">>, names |-> <<AddName(p, ncmd[p])>>,
     comment |-> <<>>, disabled |-> FALSE]

\* the commands started so far
RECURSIVE Started(_)
Started(n) == IF n = 0 THEN 0 ELSE ncmd[n] + Started(n - 1)

\* commands.go:291-306: runAdd validates its arguments and enters
\* lock.WithQuickLock(c.hostsFile, fn), which is WithLock (flock.go:133-136)
AddCall(p) ==
    /\ pc[p] = "idle"
    /\ ~acquired[p]
    /\ Started(NProcs) < MaxCmds
    /\ cmd' = [cmd EXCEPT ![p] = "add"]
    /\ ncmd' = [ncmd EXCEPT ![p] = @ + 1]
    /\ inWith' = [inWith EXCEPT ![p] = TRUE]
    /\ invoked' = [invoked EXCEPT ![p] = 0]
    /\ fnres' = [fnres EXCEPT ![p] = "none"]
    /\ pc' = [pc EXCEPT ![p] = "lwt_open"]
    /\ UNCHANGED <<dir, data, flock, now, res, lfile, acquired, elapsed, spath, euid, strict, modelVars,
                   storeVars, obs, pre, rsrc, nops, stamp, added, kept>>

\* flock.go:141 and commands.go:307-309: fn starts, store.Load() is called
AddFn(p) ==
    /\ pc[p] = "wl_fn"
    /\ cmd[p] = "add"
    /\ invoked' = [invoked EXCEPT ![p] = @ + 1]
    /\ op' = [op EXCEPT ![p] = "load"]
    /\ pc' = [pc EXCEPT ![p] = "ld_open"]
    /\ UNCHANGED <<dir, data, flock, now, res, lfile, acquired, elapsed, inWith, fnres, ctxVars, modelVars,
                   hf, content, src, dst, rfd, bpath, info, histVars>>

\* commands.go:310-322: Load has returned; on success the entry is added and
\* store.Save(hostsFile) is called
AddAfterLoad(p) ==
    /\ pc[p] = "cli_ret"
    /\ cmd[p] = "add"
    /\ op[p] = "load"
    /\ IF res[p] # "ok"
       THEN /\ fnres' = [fnres EXCEPT ![p] = "fn_error"]
            /\ pc' = [pc EXCEPT ![p] = AfterFn("fn_error")]
            /\ UNCHANGED <<res, op, hf, content, bpath, pre>>
       ELSE /\ hf' = [hf EXCEPT ![p] = AddEntry(hf[p], AddedEntry(p))]
            /\ op' = [op EXCEPT ![p] = "save"]
            /\ pre' = [pre EXCEPT ![p] = Bytes(spath)]
            /\ EnterSave(p, hf'[p])
            /\ UNCHANGED fnres
    /\ UNCHANGED <<dir, data, flock, now, lfile, acquired, elapsed, inWith, invoked, ctxVars, modelVars,
                   src, dst, rfd, info, obs, rsrc, nops, stamp, ncmd, added, kept>>

\* commands.go:322-328: Save has returned, and fn returns its error or nil
AddAfterSave(p) ==
    /\ pc[p] = "cli_ret"
    /\ cmd[p] = "add"
    /\ op[p] = "save"
    /\ fnres' = [fnres EXCEPT ![p] = IF res[p] = "ok" THEN "fn_ok" ELSE "fn_error"]
    /\ pc' = [pc EXCEPT ![p] = AfterFn(fnres'[p])]
    /\ added' = [added EXCEPT ![p] = IF res[p] = "ok" THEN @ \cup {AddName(p, ncmd[p])} ELSE @]
    /\ UNCHANGED <<dir, data, flock, now, res, lfile, acquired, elapsed, inWith, invoked, ctxVars, modelVars,
                   storeVars, obs, pre, rsrc, nops, stamp, ncmd, kept>>

-----------------------------------------------------------------------------
(* Independent processes, one FileLock instance each, on the same path *)

\* no call of the parser or the model made yet
NoCall == [call |-> "none", arg |-> <<>>, ret |-> <<>>]

\* no process has called anything yet; the HostsFile and the text each holds
\* are set by the specification
InitProcs ==
    /\ flock = [i \in Inodes |-> 0]
    /\ now = 0
    /\ pc = [p \in Procs |-> "idle"]
    /\ res = [p \in Procs |-> "none"]
    /\ lfile = [p \in Procs |-> NoFile]
    /\ acquired = [p \in Procs |-> FALSE]
    /\ elapsed = [p \in Procs |-> 0]
    /\ inWith = [p \in Procs |-> FALSE]
    /\ invoked = [p \in Procs |-> 0]
    /\ fnres = [p \in Procs |-> "none"]
    /\ op = [p \in Procs |-> "none"]
    /\ src = [p \in Procs |-> NoFile]
    /\ dst = [p \in Procs |-> NoFile]
    /\ rfd = [p \in Procs |-> NoFile]
    /\ bpath = [p \in Procs |-> ""]
    /\ info = [p \in Procs |-> NoInfo]
    /\ obs = [p \in Procs |-> NotRead]
    /\ pre = [p \in Procs |-> NoSuchFile]
    /\ rsrc = [p \in Procs |-> NoSuchFile]
    /\ nops = 0
    /\ stamp = [p \in Procs |-> 0]
    /\ cmd = [p \in Procs |-> "none"]
    /\ ncmd = [p \in Procs |-> 0]
    /\ added = [p \in Procs |-> {}]
    /\ kept = {}
    /\ out = [p \in Procs |-> NoCall]
    /\ removed = [p \in Procs |-> {}]

\* the hosts file exists and is empty, the commands run on it without root
Init ==
    /\ InitProcs
    /\ hf = [p \in Procs |-> <<>>]
    /\ content = [p \in Procs |-> <<>>]
    /\ spath = HostsPath
    /\ euid = 1000
    /\ strict = FALSE
    /\ dir = [f \in Paths |-> IF f = HostsPath THEN 1 ELSE NoFile]
    /\ data = [i \in Inodes |-> <<>>]

\* the processes call TryLock, LockWithTimeout and Unlock in any order
Next ==
    \/ \E p \in Procs : TryLockCall(p)
    \/ \E p \in Procs : TryLockOpen(p)
    \/ \E p \in Procs : TryLockFlock(p)
    \/ \E p \in Procs : TryLockWrite(p)
    \/ \E p \in Procs : LockWithTimeoutCall(p)
    \/ \E p \in Procs : LockWithTimeoutOpen(p)
    \/ \E p \in Procs : LockWithTimeoutFlock(p)
    \/ \E p \in Procs : LockWithTimeoutWrite(p)
    \/ \E p \in Procs : UnlockCall(p)
    \/ \E p \in Procs : UnlockFlock(p)
    \/ \E p \in Procs : UnlockClose(p)
    \/ \E p \in Procs : UnlockRemove(p)
    \/ Tick

Spec == Init /\ [][Next]_vars

\* the processes call WithLock, again and again
NextWithLock ==
    \/ \E p \in Procs : WithLockCall(p)
    \/ \E p \in Procs : LockWithTimeoutOpen(p)
    \/ \E p \in Procs : LockWithTimeoutFlock(p)
    \/ \E p \in Procs : LockWithTimeoutWrite(p)
    \/ \E p \in Procs : WithLockFn(p)
    \/ \E p \in Procs : UnlockFlock(p)
    \/ \E p \in Procs : UnlockClose(p)
    \/ \E p \in Procs : UnlockRemove(p)
    \/ Tick

SpecWithLock == Init /\ [][NextWithLock]_vars

-----------------------------------------------------------------------------
(* One process using a Store, the others reading the hosts file *)

\* a hosts file that is not in the form Serialize writes
UnformattedText == <<":", ":", "1", " ", "a">>

\* a file that holds no hosts entry: strict parsing rejects its line
MalformedText == <<"x", " ", "y", "\n">>

\* the path of the Store and the effective uid of the process
Configs == {<<EtcHosts, 0>>, <<EtcHosts, 1000>>, <<HostsPath, 1000>>}

Writer == 1

Readers == Procs \ {Writer}

InitStore ==
    /\ InitProcs
    /\ hf = [p \in Procs |-> <<>>]
    /\ content = [p \in Procs |-> <<>>]
    /\ \E c \in Configs : spath = c[1] /\ euid = c[2]
    /\ strict \in BOOLEAN
    /\ \E present \in BOOLEAN :
          dir = [f \in Paths |-> IF f = spath /\ present THEN 1
                                 ELSE IF f = OutPath THEN 2 ELSE NoFile]
    /\ data = [i \in Inodes |-> IF i = 1 /\ dir[spath] = 1 THEN UnformattedText
                                ELSE IF i = 2 THEN MalformedText ELSE <<>>]

NextStore ==
    \/ SaveCall(Writer)
    \/ SaveBackupOpen(Writer)
    \/ SaveBackupCreate(Writer)
    \/ SaveBackupCopy(Writer)
    \/ SaveTempCreate(Writer)
    \/ SaveTempWrite(Writer)
    \/ SaveTempSync(Writer)
    \/ SaveRename(Writer)
    \/ SaveRemove(Writer)
    \/ SaveDone(Writer)
    \/ BackupCall(Writer)
    \/ BackupOpen(Writer)
    \/ BackupCreate(Writer)
    \/ BackupCopy(Writer)
    \/ RestoreCall(Writer)
    \/ RestoreOpen(Writer)
    \/ RestoreParse(Writer)
    \/ \E p \in Readers : ReadOpen(p)
    \/ \E p \in Readers : ReadAll(p)
    \/ \E p \in Readers : ReadClose(p)
    \/ ClockTick

SpecStore == InitStore /\ [][NextStore]_vars

-----------------------------------------------------------------------------
(* Processes running hostsctl add on the same hosts file *)

NextCLI ==
    \/ \E p \in Procs : AddCall(p)
    \/ \E p \in Procs : LockWithTimeoutOpen(p)
    \/ \E p \in Procs : LockWithTimeoutFlock(p)
    \/ \E p \in Procs : LockWithTimeoutWrite(p)
    \/ \E p \in Procs : AddFn(p)
    \/ \E p \in Procs : LoadOpen(p)
    \/ \E p \in Procs : LoadParse(p)
    \/ \E p \in Procs : AddAfterLoad(p)
    \/ \E p \in Procs : SaveBackupOpen(p)
    \/ \E p \in Procs : SaveBackupCreate(p)
    \/ \E p \in Procs : SaveBackupCopy(p)
    \/ \E p \in Procs : SaveTempCreate(p)
    \/ \E p \in Procs : SaveTempWrite(p)
    \/ \E p \in Procs : SaveTempSync(p)
    \/ \E p \in Procs : SaveRename(p)
    \/ \E p \in Procs : SaveRemove(p)
    \/ \E p \in Procs : SaveDone(p)
    \/ \E p \in Procs : AddAfterSave(p)
    \/ \E p \in Procs : UnlockFlock(p)
    \/ \E p \in Procs : UnlockClose(p)
    \/ \E p \in Procs : UnlockRemove(p)
    \/ Tick

SpecCLI == Init /\ [][NextCLI]_vars

-----------------------------------------------------------------------------
(* The same processes, each of them scheduled again and again while it is
   inside LockWithTimeout, with time.Sleep returning when its interval is over *)

LockFairness ==
    /\ \A p \in Procs : WF_vars(LockWithTimeoutOpen(p))
    /\ \A p \in Procs : WF_vars(LockWithTimeoutFlock(p))
    /\ \A p \in Procs : WF_vars(LockWithTimeoutWrite(p))
    /\ WF_vars(Tick)

SpecLockLive == Init /\ [][Next]_vars /\ LockFairness

-----------------------------------------------------------------------------
(* Properties of the lock *)

\* the instance of p is in state held: its call has returned success and its
\* handle holds the OS lock
Holds(p) == acquired[p] /\ lfile[p] # NoFile /\ flock[lfile[p]] = p /\ pc[p] = "idle"

\* C1: mutual exclusion - at most one FileLock instance on the path is in
\* state held at any time, whatever the interleaving of the steps of
\* TryLock, LockWithTimeout and Unlock.
C1_MutualExclusion ==
    \A p, q \in Procs : (Holds(p) /\ Holds(q)) => p = q

\* process p takes the flock step of TryLock (flock.go:86)
TryLockAttempt(p) == pc[p] = "try_flock" /\ pc'[p] # "try_flock"

\* C5: with two instances on the same path, a TryLock of the second while the
\* first holds the lock fails with "already held" and leaves the second
\* released and the first holding; a TryLock of the second once the first has
\* unlocked succeeds at once.
C5_TryLockWhileHeld ==
    [][\A p \in Procs : TryLockAttempt(p) =>
          /\ (\E q \in Procs \ {p} : Holds(q)) =>
                /\ res'[p] = "err_held_by_another"
                /\ ~acquired'[p]
                /\ \E q \in Procs \ {p} : Holds(q)'
          /\ (\A q \in Procs \ {p} : ~acquired[q] /\ pc[q] = "idle") =>
                /\ acquired'[p]
                /\ flock'[lfile'[p]] = p]_vars

\* process p owns nothing of the lock: released, no handle, no OS lock
Released(p) == ~acquired[p] /\ lfile[p] = NoFile /\ \A i \in Inodes : flock[i] # p

\* C10: WithLock calls fn exactly once, and only while its instance holds the
\* lock; it does not call fn when the acquisition fails and returns the
\* acquisition error; whatever fn does (return, error, panic) the lock is
\* released when WithLock is left, and what fn returned is what WithLock
\* returns; fn is never called a second time.
C10_WithLock ==
    \A p \in Procs :
        /\ invoked[p] <= 1
        /\ pc[p] = "wl_fn" =>
              acquired[p] /\ lfile[p] # NoFile /\ flock[lfile[p]] = p /\ invoked[p] = 0
        /\ pc[p] = "idle" => Released(p)
        /\ (pc[p] = "idle" /\ res[p] \in FnOutcomes) => (invoked[p] = 1 /\ res[p] = fnres[p])
        /\ (pc[p] = "idle" /\ res[p] \notin FnOutcomes) => (invoked[p] = 0 /\ fnres[p] = "none")
        /\ invoked[p] = 1 => fnres[p] \in FnOutcomes

\* one WithLock has returned the panic of its fn after a single call, another
\* has returned the timeout of its acquisition without calling its fn
C10_Witness ==
    \E p, q \in Procs :
        /\ pc[p] = "idle" /\ res[p] = "fn_panic" /\ invoked[p] = 1
        /\ pc[q] = "idle" /\ res[q] = "err_timeout" /\ invoked[q] = 0

-----------------------------------------------------------------------------
(* Properties of the store *)

\* what Save returns when it fails
SaveErrors == {"err_permission", "err_backup", "err_write_temp", "err_rename"}

\* the positions inside Save, from the first system call on
SavePcs == {"sv_open", "sv_create", "sv_copy", "sv_tmp", "sv_write", "sv_sync",
            "sv_rename", "sv_remove", "sv_done"}

\* the last Store call of p was a Save, made directly or by Restore, and it
\* has returned r
SaveReturned(p, r) ==
    /\ pc[p] = "idle"
    /\ \/ op[p] = "save"
       \/ op[p] = "restore" /\ r \in SaveErrors \cup {"ok"}
    /\ res[p] = r

\* C3: a Save that returns an error, whatever the step that failed (the
\* privilege check, the backup, the creation, the write or the sync of the
\* temporary file, the rename), leaves at the canonical path exactly the
\* bytes that were there when Save was called.
C3_FailedSaveKeepsCanonical ==
    \A p \in Procs : \A r \in SaveErrors :
        SaveReturned(p, r) => Bytes(spath) = pre[p]

\* a Save failed at its last step, the rename, with a new text that differs
\* from the old one fully written to the temporary file
C3_Witness ==
    \E p \in Procs :
        /\ SaveReturned(p, "err_rename")
        /\ content[p] # pre[p]
        /\ Bytes(spath) = pre[p]

\* the text the Save of w replaces the canonical file with, once Save has
\* computed it; before that there is only the old text
NewText(w) ==
    IF pc[w] \in SavePcs \/ (pc[w] = "idle" /\ res[w] \in (SaveErrors \cup {"ok"}) \ {"err_permission"})
    THEN content[w] ELSE pre[w]

\* C4: a process that takes no lock and opens and reads the canonical file
\* while a Save is under way gets either exactly the bytes from before the
\* Save or exactly the complete new serialized text, never a truncated or
\* partly written file or a mixture; this holds also when the Save fails
\* part-way, and then it gets the old bytes.
C4_ReaderSeesOldOrNew ==
    \A r, w \in Procs :
        (pc[r] = "rd_close" /\ stamp[r] # 0 /\ stamp[r] = nops /\ op[w] \in {"save", "restore"}) =>
            /\ obs[r] \in {pre[w], NewText(w)}
            /\ (pc[w] = "idle" /\ res[w] # "ok") => obs[r] = pre[w]

\* a reader that opened the file after the rename, while Save had not yet
\* returned, has read the complete new text, which differs from the old one
C4_Witness ==
    \E r, w \in Procs :
        /\ pc[r] = "rd_close" /\ stamp[r] # 0 /\ stamp[r] = nops
        /\ pc[w] = "sv_done"
        /\ obs[r] = content[w]
        /\ obs[r] # pre[w]

\* process p makes a call of Save or Restore in this step
CallsSaveOrRestore(p) ==
    pc[p] = "idle" /\ nops' = nops + 1 /\ op'[p] \in {"save", "restore"}

\* C6: on a Store whose path is /etc/hosts, in a process whose effective uid
\* is not 0, Save and Restore return the privilege error before they create,
\* write or rename any file; the privilege check fails for no other path and
\* for no process running as root.
C6_PrivilegeGate ==
    [][\A p \in Procs : CallsSaveOrRestore(p) =>
          IF spath = EtcHosts /\ euid # 0
          THEN /\ pc'[p] = "idle"
               /\ res'[p] = "err_permission"
               /\ \A f \in Paths : Bytes(f)' = Bytes(f)
          ELSE /\ pc'[p] # "idle"
               /\ res'[p] # "err_permission"]_vars

\* a Restore has been refused on /etc/hosts after a Backup succeeded there
C6_Witness ==
    \E p \in Procs :
        /\ spath = EtcHosts /\ euid # 0
        /\ pc[p] = "idle" /\ op[p] = "restore" /\ res[p] = "err_permission"
        /\ nops = 2
        /\ Bytes(spath) = pre[p]

\* C7: after every Save that returns success there is a backup file named
\* <path>.hostsctl.<timestamp>.bak whose bytes are the bytes the canonical
\* file had just before that Save.
C7_SuccessfulSaveLeavesBackup ==
    \A p \in Procs :
        SaveReturned(p, "ok") =>
            /\ \E t \in Clock : bpath[p] = BackupPath(spath, t)
            /\ Bytes(bpath[p]) = pre[p]

\* a Save succeeded and changed the canonical file; the backup holds the old bytes
C7_Witness ==
    \E p \in Procs :
        /\ SaveReturned(p, "ok")
        /\ op[p] = "save"
        /\ Bytes(spath) = content[p]
        /\ Bytes(spath) # pre[p]
        /\ Bytes(bpath[p]) = pre[p]

\* C8: Backup(outputPath) never changes the bytes at the canonical path,
\* whatever outputPath is, a path that names an existing file included; when
\* it succeeds the file at the returned path is a byte-for-byte copy of the
\* canonical file and original_path is the path of the Store.
C8_BackupLeavesCanonical ==
    \A p \in Procs :
        (pc[p] = "idle" /\ op[p] = "backup") =>
            /\ Bytes(spath) = pre[p]
            /\ res[p] = "ok" =>
                  /\ info[p].original = spath
                  /\ Bytes(info[p].path) = pre[p]
                  /\ info[p].size = Len(pre[p])

\* what Parse makes of the bytes Restore was pointed at
ParsedBackup(p) ==
    IF rsrc[p] = NoSuchFile THEN [ok |-> FALSE, entries |-> <<>>]
    ELSE Parse(rsrc[p], strict)

\* C9: a Restore that succeeds leaves at the canonical path the
\* serialization of what the parser makes of the backup file, as a Save of
\* that does, with a backup file that holds the canonical bytes from before
\* the Restore; a Restore whose backupPath cannot be opened or does not
\* parse returns an error and leaves the canonical file unchanged.
C9_RestoreIsSaveOfParsedBackup ==
    \A p \in Procs :
        (pc[p] = "idle" /\ op[p] = "restore") =>
            /\ res[p] = "ok" =>
                  /\ ParsedBackup(p).ok
                  /\ Bytes(spath) = Serialize(ParsedBackup(p).entries)
                  /\ \E t \in Clock : Bytes(BackupPath(spath, t)) = pre[p]
            /\ ~ParsedBackup(p).ok =>
                  /\ res[p] \in {"err_permission", "err_open_backup", "err_parse_backup"}
                  /\ Bytes(spath) = pre[p]

\* a Restore succeeded from a backup whose bytes are not in serialized form:
\* the canonical file now differs from the backup and from what it was
C9_Witness ==
    \E p \in Procs :
        /\ pc[p] = "idle" /\ op[p] = "restore" /\ res[p] = "ok"
        /\ Bytes(spath) # rsrc[p]
        /\ Bytes(spath) # pre[p]
        /\ rsrc[p] # pre[p]

-----------------------------------------------------------------------------
(* Properties of the commands *)

\* p is inside the function it passed to WithLock: its critical section
InFn(p) == pc[p] \in {"ld_open", "ld_parse", "cli_ret"} \cup SavePcs

\* the host names of the entries of the hosts file
FileNames ==
    IF Bytes(spath) = NoSuchFile THEN {}
    ELSE LET entries == Parse(Bytes(spath), FALSE).entries
         IN  UNION {{entries[i].names[j] : j \in 1..Len(entries[i].names)} :
                       i \in 1..Len(entries)}

\* C2: no lost update - the critical sections of processes that run add
\* commands on the same hosts file never overlap, and once no command is
\* running the file holds the entry of every add that returned success.
C2_NoLostUpdate ==
    /\ \A p, q \in Procs : (InFn(p) /\ InFn(q)) => p = q
    /\ (\A p \in Procs : pc[p] = "idle") =>
          \A p \in Procs : \A n \in added[p] : n[1] \in FileNames

-----------------------------------------------------------------------------
(* Properties of the lock: misuse, termination *)

\* process p, which is in no call, makes a call of its FileLock in this step
LockCallBy(p) == pc[p] = "idle" /\ <<pc'[p], res'[p]>> # <<pc[p], res[p]>>

\* C11: Unlock on an instance that is released, and TryLock or
\* LockWithTimeout on an instance that holds the lock, return an error and
\* leave the instance (flag and handle), the OS lock and the lock file as
\* they were: a holder is never let into an acquisition again, a released
\* instance is never let into a release.
C11_MisuseIsAnError ==
    [][\A p \in Procs : LockCallBy(p) =>
          /\ acquired[p] => pc'[p] \notin {"try_open", "lwt_open"}
          /\ ~acquired[p] => pc'[p] # "un_flock"
          /\ pc'[p] = "idle" =>
                /\ res'[p] = IF acquired[p] THEN "err_already_acquired" ELSE "err_not_acquired"
                /\ UNCHANGED <<acquired, lfile, flock, dir, data>>]_vars

\* an instance that holds has been refused a second acquisition while
\* another, released, has been refused a release
C11_Witness ==
    \E p, q \in Procs :
        /\ Holds(p) /\ res[p] = "err_already_acquired"
        /\ Released(q) /\ pc[q] = "idle" /\ res[q] = "err_not_acquired"

\* the positions inside LockWithTimeout
LockWithTimeoutPcs == {"lwt_open", "lwt_flock", "lwt_sleep", "lwt_write"}

\* the LockWithTimeout of p returns in this step
LockWithTimeoutReturns(p) == pc[p] \in LockWithTimeoutPcs /\ pc'[p] = "idle"

\* C12: LockWithTimeout always ends, with success and the instance holding
\* the lock or with an error and the instance released; it returns the
\* timeout error when, and only when, an attempt fails because another
\* handle holds the lock after more than the timeout has elapsed; it never
\* waits for ever.
C12_LockWithTimeoutTerminates ==
    /\ [][\A p \in Procs :
            /\ LockWithTimeoutReturns(p) =>
                  \/ /\ res'[p] = "ok"
                     /\ acquired'[p]
                     /\ lfile'[p] # NoFile
                     /\ flock'[lfile'[p]] = p
                  \/ /\ res'[p] = "err_timeout"
                     /\ elapsed[p] > TimeoutPolls
                     /\ flock[lfile[p]] \notin {0, p}
                     /\ ~acquired'[p]
                     /\ lfile'[p] = NoFile
                     /\ \A i \in Inodes : flock'[i] # p
            /\ (pc[p] = "lwt_flock" /\ pc'[p] # "lwt_flock" /\ flock[lfile[p]] \notin {0, p}
                  /\ elapsed[p] > TimeoutPolls) =>
                  (pc'[p] = "idle" /\ res'[p] = "err_timeout")]_vars
    /\ \A p \in Procs : (pc[p] \in LockWithTimeoutPcs) ~> (pc[p] = "idle")

\* one LockWithTimeout has timed out on a lock that another instance, which
\* got it through LockWithTimeout too, still holds
C12_Witness ==
    \E p, q \in Procs :
        /\ pc[p] = "idle" /\ res[p] = "err_timeout" /\ Released(p)
        /\ Holds(q) /\ res[q] = "ok"
        /\ data[lfile[q]] = PidLine(q)

\* ---------------------------------------------------------------------------
\* The in-memory HostsFile: AddEntry and RemoveEntry (model.go)
\* ---------------------------------------------------------------------------

MaxCalls == 4

\* the index of the first entry at or after i whose id is the given one, 0 when there is none
RECURSIVE IndexOfID(_, _, _)
IndexOfID(entries, id, i) ==
    IF i > Len(entries) THEN 0
    ELSE IF entries[i].id = id THEN i
    ELSE IndexOfID(entries, id, i + 1)

\* model.go:101-106: the place of the element FindByID returns a pointer to, 0 for nil
FindByID(entries, id) == IndexOfID(entries, id, 1)

\* a RemoveEntry that numbers the entries it keeps from 1 again
RemoveEntry_Renumber(entries, id) ==
    LET i == IndexOfID(entries, id, 1)
    IN  IF i = 0 THEN [entries |-> entries, found |-> FALSE]
        ELSE [entries |-> [k \in 1..(Len(entries) - 1) |->
                              [(IF k < i THEN entries[k] ELSE entries[k + 1]) EXCEPT !.id = k]],
              found |-> TRUE]

\* model.go:143-151: the first entry with the id is cut out, the others keep their order
RemoveEntry(entries, id) ==
    LET i == IndexOfID(entries, id, 1)
    IN  IF i = 0 THEN [entries |-> entries, found |-> FALSE]
        ELSE [entries |-> SubSeq(entries, 1, i - 1) \o SubSeq(entries, i + 1, Len(entries)),
              found |-> TRUE]

\* model.go:155-162: h.EnableEntry(id) clears the flag of the entry FindByID points to
EnableEntry(entries, id) ==
    IF FindByID(entries, id) = 0 THEN [entries |-> entries, found |-> FALSE]
    ELSE [entries |-> [entries EXCEPT ![FindByID(entries, id)].disabled = FALSE], found |-> TRUE]

\* model.go:166-173: h.DisableEntry(id) sets the flag of the entry FindByID points to
DisableEntry(entries, id) ==
    IF FindByID(entries, id) = 0 THEN [entries |-> entries, found |-> FALSE]
    ELSE [entries |-> [entries EXCEPT ![FindByID(entries, id)].disabled = TRUE], found |-> TRUE]

\* a HostsFile as Parse returns it (ids 1..n), and one whose entries 2, 3 and 4 have been removed
FiveEntries == [i \in 1..5 |-> [id |-> i, ip |-> <<":", ":", "1">>, names |-> << <<HostNames[i]>> >>,
                                comment |-> <<>>, disabled |-> FALSE]]

\* a HostsFile built by hand, as the tests build theirs, with the id 1 twice
TwiceOne == <<FiveEntries[1], [FiveEntries[2] EXCEPT !.id = 1, !.disabled = TRUE]>>

InitialFiles == {<<>>, SubSeq(FiveEntries, 1, 2), <<FiveEntries[1], FiveEntries[5]>>, TwiceOne}

\* the entries a caller hands to AddEntry: the id it carries is whatever the caller left there
NewEntries ==
    {[id |-> 0, ip |-> <<"1", ".", "2", ".", "3", ".", "4">>, names |-> << <<"x">> >>,
      comment |-> <<>>, disabled |-> FALSE],
     [id |-> 1, ip |-> <<":", ":", "1">>, names |-> << <<"y">>, <<"z">> >>,
      comment |-> <<"c">>, disabled |-> TRUE]}

RemoveIDs == 0..(MaxCalls + 5)

\* model.go:126-139: h.AddEntry(entry)
AddEntryCall(p) ==
    /\ nops < MaxCalls
    /\ \E e \in NewEntries :
          /\ hf' = [hf EXCEPT ![p] = AddEntry(@, e)]
          /\ out' = [out EXCEPT ![p] = [call |-> "AddEntry", arg |-> <<e>>, ret |-> <<>>]]
    /\ nops' = nops + 1
    /\ UNCHANGED <<dir, data, flock, now, pc, res, lockVars, ctxVars, op, content, src, dst, rfd,
                   bpath, info, obs, pre, rsrc, stamp, ncmd, added, kept, removed>>

\* model.go:143-151: h.RemoveEntry(id)
RemoveEntryCall(p) ==
    /\ nops < MaxCalls
    /\ \E id \in RemoveIDs :
          LET r == RemoveEntry(hf[p], id)
          IN  /\ hf' = [hf EXCEPT ![p] = r.entries]
              /\ out' = [out EXCEPT ![p] = [call |-> "RemoveEntry", arg |-> <<id>>, ret |-> <<r.found>>]]
              /\ removed' = [removed EXCEPT ![p] = IF r.found THEN @ \cup {id} ELSE @]
    /\ nops' = nops + 1
    /\ UNCHANGED <<dir, data, flock, now, pc, res, lockVars, ctxVars, op, content, src, dst, rfd,
                   bpath, info, obs, pre, rsrc, stamp, ncmd, added, kept>>

\* the ids EnableEntry and DisableEntry are called with
FlagIDs == 1..(MaxCalls - 1)

\* model.go:155-162: h.EnableEntry(id)
EnableEntryCall(p) ==
    /\ nops < MaxCalls
    /\ \E id \in FlagIDs :
          /\ hf' = [hf EXCEPT ![p] = EnableEntry(@, id).entries]
          /\ out' = [out EXCEPT ![p] = [call |-> "EnableEntry", arg |-> <<id>>,
                                       ret |-> <<EnableEntry(hf[p], id).found>>]]
    /\ nops' = nops + 1
    /\ UNCHANGED <<dir, data, flock, now, pc, res, lockVars, ctxVars, op, content, src, dst, rfd,
                   bpath, info, obs, pre, rsrc, stamp, ncmd, added, kept, removed>>

\* model.go:166-173: h.DisableEntry(id)
DisableEntryCall(p) ==
    /\ nops < MaxCalls
    /\ \E id \in FlagIDs :
          /\ hf' = [hf EXCEPT ![p] = DisableEntry(@, id).entries]
          /\ out' = [out EXCEPT ![p] = [call |-> "DisableEntry", arg |-> <<id>>,
                                       ret |-> <<DisableEntry(hf[p], id).found>>]]
    /\ nops' = nops + 1
    /\ UNCHANGED <<dir, data, flock, now, pc, res, lockVars, ctxVars, op, content, src, dst, rfd,
                   bpath, info, obs, pre, rsrc, stamp, ncmd, added, kept, removed>>

InitModel ==
    /\ InitProcs
    /\ hf \in [Procs -> InitialFiles]
    /\ content = [p \in Procs |-> <<>>]
    /\ spath = HostsPath
    /\ euid = 1000
    /\ strict = FALSE
    /\ dir = [f \in Paths |-> IF f = HostsPath THEN 1 ELSE NoFile]
    /\ data = [i \in Inodes |-> <<>>]

NextModel ==
    \/ \E p \in Procs : AddEntryCall(p)
    \/ \E p \in Procs : RemoveEntryCall(p)
    \/ \E p \in Procs : EnableEntryCall(p)
    \/ \E p \in Procs : DisableEntryCall(p)

\* every process adds entries to and removes entries from a HostsFile of its own
SpecModel == InitModel /\ [][NextModel]_vars

\* the step is a call of AddEntry by p
AddEntryBy(p) == out'[p].call = "AddEntry" /\ hf'[p] # hf[p]

\* the entry AddEntry has just put into the HostsFile of p
LastEntry(p) == hf[p][Len(hf[p])]

\* the steps of Save in the order of store.go:48-70: the backup (75-90), the
\* temporary file (95-105), the rename (65) and what follows it (66-70)
SaveRank ==
    [s \in {"sv_open", "sv_create", "sv_copy", "sv_tmp", "sv_write", "sv_sync", "sv_rename",
            "sv_remove", "sv_done"} |->
        CASE s = "sv_open" -> 1 [] s = "sv_create" -> 2 [] s = "sv_copy" -> 3
          [] s = "sv_tmp" -> 4 [] s = "sv_write" -> 5 [] s = "sv_sync" -> 6
          [] s = "sv_rename" -> 7 [] OTHER -> 8]

\* the step changes what the path names or the bytes found under it
Changes(f) == dir'[f] # dir[f] \/ Bytes(f)' # Bytes(f)

\* C24: a Save takes its steps in one order, each once: after the privilege
\* check and the serialization come the backup of the bytes on disk, then the
\* writing and sync of the temporary file, then the rename. A step that fails
\* ends the Save with an error (after a failed backup no temporary file is
\* written and nothing is renamed), the temporary file is written only once
\* the backup holds the bytes on disk, and only the rename changes what the
\* canonical path holds.
C24_SaveStepsInOrder ==
    [][pc[Writer] \in DOMAIN SaveRank /\ pc'[Writer] # pc[Writer] =>
          /\ ~RequiresRootFails
          /\ content[Writer] = Serialize(hf[Writer])
          /\ pc'[Writer] \in DOMAIN SaveRank => SaveRank[pc'[Writer]] = SaveRank[pc[Writer]] + 1
          /\ pc'[Writer] \notin DOMAIN SaveRank =>
                /\ res'[Writer] = "ok" <=> pc[Writer] = "sv_done"
                /\ res'[Writer] = "err_backup" <=> SaveRank[pc[Writer]] <= 3
                /\ res'[Writer] = "err_write_temp" <=> SaveRank[pc[Writer]] \in 4..6
                /\ res'[Writer] = "err_rename" <=> pc[Writer] = "sv_remove"
          /\ Changes(spath) => pc[Writer] = "sv_rename"
          /\ Changes(bpath[Writer]) => SaveRank[pc[Writer]] <= 3
          /\ Changes(SaveTempPath(spath)) =>
                /\ SaveRank[pc[Writer]] >= 4
                /\ Bytes(bpath[Writer]) = Bytes(spath)]_vars

\* a Save has failed in its backup, after the backup file was created: there
\* is no temporary file and the canonical file holds what it held
C24_Witness ==
    /\ res[Writer] = "err_backup"
    /\ op[Writer] = "save"
    /\ dir[bpath[Writer]] # NoFile
    /\ dir[SaveTempPath(spath)] = NoFile
    /\ Bytes(spath) = pre[Writer]
    /\ Bytes(spath) # NoSuchFile

\* C28: the backup a successful Save has written is never overwritten: after
\* any sequence of Saves and Backups, several in one second of the clock
\* included, the backup file of every successful Save is there with the bytes
\* the canonical file had before that Save, so these bytes are held by some
\* backup file.
C28_BackupsAreKept ==
    \A k \in kept :
        /\ Bytes(k.path) = k.bytes
        /\ \E t \in Clock : Bytes(BackupPath(spath, t)) = k.bytes

\* C29: when a Save has returned, with success or with the error of the
\* backup, of the temporary file or of the rename, there is no file at the
\* temporary path <path>.tmp.
C29_NoTempFileAfterSave ==
    \A p \in Procs :
        \A r \in SaveErrors \cup {"ok"} :
            SaveReturned(p, r) => dir[SaveTempPath(spath)] = NoFile

\* C23: whenever an instance holds the lock on the path (its Lock has
\* returned and its Unlock has not begun), the file <path>.lock exists and
\* holds exactly the holder's process id in decimal and a newline; and when
\* an Unlock has removed the file and returns, the file does not exist.
C23_LockFileNamesHolder ==
    [][/\ \A p \in Procs :
             acquired'[p] /\ pc'[p] = "idle" =>
                 /\ dir'[LockFilePath(spath)] # NoFile
                 /\ data'[dir'[LockFilePath(spath)]] = PidLine(p)
       /\ \A p \in Procs :
             pc[p] = "un_remove" /\ pc'[p] = "idle" => dir'[LockFilePath(spath)] = NoFile]_vars

\* the step is a call of the named operation by p
CallBy(p, name) == out'[p].call = name /\ (out'[p] # out[p] \/ hf'[p] # hf[p])

\* C22: RemoveEntry, EnableEntry and DisableEntry touch only the first entry
\* whose id is the given one: RemoveEntry takes it out of the list, EnableEntry
\* and DisableEntry set its disabled flag and nothing else; every other entry
\* keeps its id, ip, names, comment, flag and place among the others; and when
\* no entry has the id the call returns false and the HostsFile is as it was.
C22_OnlyFirstEntryWithIDTouched ==
    [][\A p \in Procs : \A name \in {"RemoveEntry", "EnableEntry", "DisableEntry"} :
          CallBy(p, name) =>
              LET old == hf[p]
                  new == hf'[p]
                  id  == out'[p].arg[1]
                  hit == {k \in 1..Len(old) : old[k].id = id}
              IN  /\ out'[p].ret[1] = (hit # {})
                  /\ hit = {} => new = old
                  /\ hit # {} /\ name = "RemoveEntry" =>
                        /\ Len(new) = Len(old) - 1
                        /\ \A k \in 1..Len(new) :
                              new[k] = IF k < SetMin(hit) THEN old[k] ELSE old[k + 1]
                  /\ hit # {} /\ name # "RemoveEntry" =>
                        /\ Len(new) = Len(old)
                        /\ \A k \in 1..Len(old) :
                              IF k = SetMin(hit)
                              THEN new[k] = [old[k] EXCEPT !.disabled = (name = "DisableEntry")]
                              ELSE new[k] = old[k]]_vars

\* each of the three operations has acted on the first of two entries with the
\* same id, the second of which is in the file as it was, and each has been
\* called with an id no entry has
C22_Witness ==
    /\ \E p \in Procs :
          /\ out[p].call \in {"EnableEntry", "DisableEntry"}
          /\ out[p].ret = <<TRUE>>
          /\ Len(hf[p]) > 1
          /\ hf[p][2].id = hf[p][1].id
    /\ \E p \in Procs :
          /\ out[p].call = "RemoveEntry"
          /\ out[p].arg = <<1>>
          /\ out[p].ret = <<TRUE>>
          /\ hf[p] = <<TwiceOne[2]>>

\* no two entries of the HostsFile have the same id
UniqueIDs(entries) ==
    \A i, j \in 1..Len(entries) : entries[i].id = entries[j].id => i = j

\* C27: a HostsFile whose ids are distinct, as the ids of every file Parse
\* returns are, has distinct ids after every AddEntry, RemoveEntry, EnableEntry
\* and DisableEntry call, hence after any sequence of them: an id names one
\* entry at most.
C27_IDsStayUnique ==
    [][\A p \in Procs : UniqueIDs(hf[p]) => UniqueIDs(hf'[p])]_vars

\* entries have been added to a file from which an entry had been removed, by
\* calls that followed the setting of a flag
C27_Witness ==
    \E p \in Procs :
        /\ out[p].call = "AddEntry"
        /\ removed[p] # {}
        /\ Len(hf[p]) >= 3
        /\ \E i \in 1..Len(hf[p]) : hf[p][i].disabled /\ hf[p][i].id = 1
        /\ UniqueIDs(hf[p])

IDs(entries) == {entries[i].id : i \in 1..Len(entries)}

C14_AddEntryAppendsWithNextID ==
    [][\A p \in Procs : AddEntryBy(p) =>
          LET old == hf[p]
              new == hf'[p]
              e   == out'[p].arg[1]
              id  == new[Len(new)].id
          IN  /\ Len(new) = Len(old) + 1
              /\ SubSeq(new, 1, Len(old)) = old
              /\ new[Len(new)] = [e EXCEPT !.id = id]
              /\ old = <<>> => id = 1
              /\ old # <<>> => (id - 1) \in IDs(old) /\ \A x \in IDs(old) : x < id]_vars

\* AddEntry has given id 6 to the entry added to a file whose ids were 1 and 5
C14_Witness ==
    \E p \in Procs :
        /\ out[p].call = "AddEntry"
        /\ [i \in 1..Len(hf[p]) |-> hf[p][i].id] = <<1, 5, 6>>
        /\ SubSeq(hf[p], 1, 2) = <<FiveEntries[1], FiveEntries[5]>>

\* ---------------------------------------------------------------------------
\* Parse and Serialize as functions (parser.go)
\* ---------------------------------------------------------------------------

MaxEntries == 2
MaxLines == 2

\* the fields of the entries a caller builds by hand: addresses
FileIPs == {<<":", ":", "1">>, <<"1", ".", "1", ".", "1", ".", "1">>, <<"z">>}

\* lists of host names
FileNameLists == {<<<<"a">>>>, <<<<"a">>, <<"b", ".", "c">>>>, <<<<"a", "_", "b">>>>, <<>>}

\* comments
FileComments == {<<>>, <<"c", " ", "d">>, <<" ", "c">>, <<"c", "#", "d">>}

FileEntries ==
    [id : {0}, ip : FileIPs, names : FileNameLists, comment : FileComments, disabled : BOOLEAN]

\* the HostsFiles handed to Serialize: up to MaxEntries entries, ids as a caller may have left them
Files ==
    UNION {{[i \in 1..n |-> [f[i] EXCEPT !.id = 2 * i + 3]] : f \in [1..n -> FileEntries]} : n \in 0..MaxEntries}

\* the lines of the texts handed to Parse
TextLines ==
    { <<":", ":", "1", " ", "a">>,                       \* an entry, not in the generated form
      <<"x", " ", "y">>,                                 \* no IP address
      <<>>,                                              \* blank
      <<"#", " ", "z", "z", " ", " ">>,                  \* a comment: one word, spaces after it
      <<"#", "c">>,                                      \* a comment
      <<":", ":", "1", " ", " ">>,                       \* an IP address and no host name
      <<"#", " ", ":", ":", "1", "\t", "a", "\t", "#", " ", "c">>, \* a disabled entry in the generated form
      <<":", ":", "1", " ", "a", "_", "b">>,             \* no valid host name
      <<"#", " ", ":", ":", "1", " ", " ">>,             \* a commented IP address and no host name
      <<":", ":", "1">>,                                 \* an IP address alone
      <<"#", " ", "a", " ", "b">>,                       \* commented words in the shape of an entry
      <<":", ":", "1", "\t", "a", "\r">>}                \* an entry ended by CR LF

\* the scenario of the round trip: a disabled entry with a comment
ScenarioText ==
    <<"#", " ", "1", "9", "2", ".", "1", "6", "8", ".", "1", ".", "2", "\t", "d", "i", "s", "a", "b", "l", "e", "d", ".", "l", "o", "c", "a", "l", "\t", "#", " ", "D", "i", "s", "a", "b", "l", "e", "d", " ", "e", "n", "t", "r", "y", "\n">>

\* one line that fills the buffer of the Scanner
LongText == SubSeq([i \in 1..MaxScanTokenSize |-> "a"], 1, MaxScanTokenSize)

\* up to MaxLines lines, the last one with or without its newline
Texts ==
    UNION {{Join(ls, <<"\n">>) \o nl : ls \in [1..n -> TextLines], nl \in {<<>>, <<"\n">>}} : n \in 0..MaxLines}
        \cup {ScenarioText, LongText}

Caller == 1

\* parser.go:260-268: Serialize(hostsFile), the text kept by the caller
SerializeCall(p) ==
    /\ content' = [content EXCEPT ![p] = Serialize(hf[p])]
    /\ out' = [out EXCEPT ![p] = [call |-> "Serialize", arg |-> <<hf[p]>>, ret |-> <<Serialize(hf[p])>>]]
    /\ UNCHANGED <<dir, data, flock, now, pc, res, lockVars, ctxVars, op, hf, src, dst, rfd,
                   bpath, info, histVars, removed>>

\* parser.go:46-83: Parse(reader) of a parser made by NewParser(strictMode); the caller keeps
\* the HostsFile returned, none when Parse returns an error
ParseCall(p) ==
    /\ \E strictMode \in BOOLEAN :
          LET r == Parse(content[p], strictMode)
          IN  /\ hf' = [hf EXCEPT ![p] = r.entries]
              /\ out' = [out EXCEPT ![p] = [call |-> "Parse", arg |-> <<content[p], strictMode>>, ret |-> <<r>>]]
    /\ UNCHANGED <<dir, data, flock, now, pc, res, lockVars, ctxVars, op, content, src, dst, rfd,
                   bpath, info, histVars, removed>>

\* the caller holds a HostsFile it has built, or a text it has read
InitParse ==
    /\ InitProcs
    /\ \/ /\ \E f \in Files : hf = [p \in Procs |-> IF p = Caller THEN f ELSE <<>>]
          /\ content = [p \in Procs |-> <<>>]
       \/ /\ hf = [p \in Procs |-> <<>>]
          /\ \E t \in Texts : content = [p \in Procs |-> IF p = Caller THEN t ELSE <<>>]
    /\ spath = HostsPath
    /\ euid = 1000
    /\ strict = FALSE
    /\ dir = [f \in Paths |-> IF f = HostsPath THEN 1 ELSE NoFile]
    /\ data = [i \in Inodes |-> <<>>]

NextParse ==
    \/ SerializeCall(Caller)
    \/ ParseCall(Caller)

SpecParse == InitParse /\ [][NextParse]_vars

\* model.go:55-57: Entry.IsValid
IsValid(e) == e.ip # <<>> /\ Len(e.names) > 0

\* the entries are those of the HostsFile h in every field but the id, which counts from 1
RenumberedFrom(entries, h) ==
    /\ Len(entries) = Len(h)
    /\ \A i \in 1..Len(h) : entries[i] = [h[i] EXCEPT !.id = i]

\* the step is the Parse, by p, of the text its Serialize call has just returned
ParsesSerialized(p) ==
    /\ out[p].call = "Serialize"
    /\ out'[p].call = "Parse"
    /\ out'[p].arg[1] = out[p].ret[1]

\* C15 (as stated): for a HostsFile whose entries each have an IP and a name, Parse of its
\* Serialize text succeeds and returns the same entries, ids counted from 1.
C15_RoundTripOfValidEntries ==
    [][\A p \in Procs :
          LET h == out[p].arg[1]
              r == out'[p].ret[1]
          IN  ParsesSerialized(p) /\ (\A i \in 1..Len(h) : IsValid(h[i]))
                  => r.ok /\ RenumberedFrom(r.entries, h)]_vars

\* an entry whose fields the parser reads back as they are: an address and names that pass
\* its validation, at least one name, a comment without line break and without white space
\* at its ends
ReadBack(e) ==
    /\ isValidIP(e.ip)
    /\ Len(e.names) > 0
    /\ \A i \in 1..Len(e.names) : isValidHostname(e.names[i])
    /\ e.comment = TrimSpace(e.comment)
    /\ ~Contains(e.comment, "\n")

\* C15 (amended): for a HostsFile whose entries have an address and names that pass the
\* validation of the parser, at least one name, and a trimmed one-line comment, and whose
\* lines fit the Scanner, Parse of its Serialize text succeeds, strict or not, and returns
\* the same entries in the same order, ids counted from 1.
C15_RoundTripOfReadBackEntries ==
    [][\A p \in Procs :
          LET h == out[p].arg[1]
              r == out'[p].ret[1]
          IN  /\ ParsesSerialized(p)
              /\ \A i \in 1..Len(h) : ReadBack(h[i])
              /\ FirstTooLong(out[p].ret[1]) = 0
              => r.ok /\ RenumberedFrom(r.entries, h)]_vars

\* Parse has read back two entries that only Serialize writes: a disabled one with a comment
\* that holds a '#', ids 1 and 2
C15_Witness ==
    /\ out[Caller].call = "Parse"
    /\ out[Caller].ret[1].ok
    /\ Len(hf[Caller]) = 2
    /\ hf[Caller][1].disabled /\ hf[Caller][1].comment = <<"c", "#", "d">>
    /\ Len(hf[Caller][2].names) = 2
    /\ <<hf[Caller][1].id, hf[Caller][2].id>> = <<1, 2>>

\* the generated form of one entry: IP and names separated by tabs, then tab, "# " and the
\* comment if there is one, the whole after "# " if the entry is disabled
CanonicalLine(e) ==
    (IF e.disabled THEN <<"#", " ">> ELSE <<>>)
        \o e.ip
        \o Join([i \in 1..Len(e.names) |-> <<"\t">> \o e.names[i]], <<>>)
        \o (IF e.comment = <<>> THEN <<>> ELSE <<"\t", "#", " ">> \o e.comment)

\* the texts in the generated form: one line per entry, joined by newlines, one newline at the end
CanonicalTexts ==
    {Join([i \in 1..Len(f) |-> CanonicalLine(f[i])], <<"\n">>) \o <<"\n">> :
        f \in {g \in Files : \A i \in 1..Len(g) : ReadBack(g[i])}} \cup {ScenarioText}

\* the step is the Serialize, by p, of the HostsFile its Parse call has just returned
SerializesParsed(p) ==
    /\ out[p].call = "Parse"
    /\ out[p].ret[1].ok
    /\ out'[p].call = "Serialize"
    /\ out'[p].arg[1] = out[p].ret[1].entries

Blank(line) == TrimSpace(line) = <<>>

\* parser.go:60: a line whose first character after white space is '#'
CommentLine(line) == ~Blank(line) /\ TrimSpace(line)[1] = "#"

\* the text of a line before its first '#', the whole of it when it has none
BeforeHash(s) ==
    LET H == {i \in 1..Len(s) : s[i] = "#"}
    IN  IF H = {} THEN s ELSE SubSeq(s, 1, SetMin(H) - 1)

\* the IP token and the hostname tokens of a line, those after the leading '#' for a comment line
EntryTokens(line) ==
    LET t == TrimSpace(line)
    IN  Fields(BeforeHash(IF CommentLine(line) THEN SubSeq(t, 2, Len(t)) ELSE t))

\* parser.go:13-14: the shape of an entry, an IP token followed by at least one hostname token
EntryShaped(line) == Len(EntryTokens(line)) >= 2

\* a '#' line that holds no entry
PureComment(line) == CommentLine(line) /\ ~EntryShaped(line)

\* parser.go:110-130: an entry whose IP address and hostnames pass the validation
WellFormed(line) ==
    /\ EntryShaped(line)
    /\ isValidIP(EntryTokens(line)[1])
    /\ \A i \in 2..Len(EntryTokens(line)) : isValidHostname(EntryTokens(line)[i])

\* a line that is not blank, not a pure comment, and not a well-formed entry
Offending(line) == ~Blank(line) /\ ~PureComment(line) /\ ~WellFormed(line)

\* the number of the first offending line, 0 when there is none
FirstOffending(lines) ==
    LET O == {i \in 1..Len(lines) : Offending(lines[i])}
    IN  IF O = {} THEN 0 ELSE SetMin(O)

\* C17: strict Parse of a text with an offending line returns no HostsFile and a ParseError
\* that holds the number and the content of the first offending line (texts whose lines fit
\* the Scanner).
C17_StrictReportsFirstOffendingLine ==
    \A p \in Procs :
        out[p].call = "Parse" /\ out[p].arg[2] /\ FirstTooLong(out[p].arg[1]) = 0 =>
            LET lines == ScanLines(out[p].arg[1])
                k     == FirstOffending(lines)
                r     == out[p].ret[1]
            IN  k > 0 => ~r.ok /\ r.entries = <<>> /\ r.line = k /\ r.content = lines[k]

\* the well-formed lines among the lines, in their order
RECURSIVE WellFormedLines(_)
WellFormedLines(lines) ==
    IF lines = <<>> THEN <<>>
    ELSE (IF WellFormed(Head(lines)) THEN <<Head(lines)>> ELSE <<>>) \o WellFormedLines(Tail(lines))

\* the entry is the one the line holds: its IP token, its hostname tokens, disabled for a '#' line
EntryOfLine(e, line) ==
    /\ e.ip = EntryTokens(line)[1]
    /\ e.names = SubSeq(EntryTokens(line), 2, Len(EntryTokens(line)))
    /\ e.disabled = CommentLine(line)

\* C18: lenient Parse returns no error whatever the text, and a HostsFile that holds exactly
\* the entries of the well-formed lines, in their order, ids counted from 1 over them.
C18_LenientNeverFails ==
    \A p \in Procs :
        out[p].call = "Parse" /\ ~out[p].arg[2] =>
            LET r == out[p].ret[1]
                w == WellFormedLines(ScanLines(out[p].arg[1]))
            IN  /\ r.ok
                /\ Len(r.entries) = Len(w)
                /\ \A i \in 1..Len(w) : r.entries[i].id = i /\ EntryOfLine(r.entries[i], w[i])

\* C19: in both modes a blank line and a pure comment give no entry, take no id and raise no
\* ParseError, and only a '#' line in the shape of an entry gives a disabled entry: the
\* ParseError of a failed Parse names a line that is neither, and the entries of a successful
\* Parse are no more than the lines that are neither, the disabled ones no more than the '#'
\* lines in the shape of an entry, ids counted from 1 (texts whose lines fit the Scanner).
C19_CommentsAndBlanksIgnored ==
    \A p \in Procs :
        out[p].call = "Parse" /\ FirstTooLong(out[p].arg[1]) = 0 =>
            LET lines == ScanLines(out[p].arg[1])
                r     == out[p].ret[1]
                K     == {i \in 1..Len(lines) : ~Blank(lines[i]) /\ ~PureComment(lines[i])}
                D     == {i \in 1..Len(lines) : CommentLine(lines[i]) /\ EntryShaped(lines[i])}
            IN  /\ ~r.ok => ~Blank(lines[r.line]) /\ ~PureComment(lines[r.line])
                /\ r.ok => /\ Len(r.entries) <= Cardinality(K)
                           /\ Cardinality({i \in 1..Len(r.entries) : r.entries[i].disabled})
                                  <= Cardinality(D)
                           /\ \A i \in 1..Len(r.entries) : r.entries[i].id = i

\* ---------------------------------------------------------------------------
\* Store.Verify (store.go)
\* ---------------------------------------------------------------------------

\* the hosts files Verify is run on
VerifyTexts ==
    {<<":", ":", "1", " ", "a", "\n", ":", ":", "1", " ", "a", "\n">>,  \* the scenario: the name a in two entries
     <<":", ":", "1", " ", "a", " ", "a", "\n">>,  \* the name a twice in one entry
     <<":", ":", "1", " ", "a", "\n", ":", ":", "1", " ", "b", " ", "a", "\n", "#", " ", ":", ":", "1", " ", "a", "\n">>,  \* a in three entries, one of them disabled
     <<":", ":", "1", " ", "a", " ", "b", "\n", ":", ":", "1", " ", "b", " ", "a", " ", "a", "\n">>,  \* two names in two entries each
     <<":", ":", "1", " ", "a", "\n", ":", ":", "1", " ", "A", "\n">>,  \* names that differ by case
     <<":", ":", "1", " ", "a", "\n", ":", ":", "1", " ", "b", "\n">>,  \* no name twice
     <<"x", " ", "y", "\n", ":", ":", "1", " ", "a", "\n">>,  \* a malformed line
     <<":", ":", "1", " ", " ", "\n">>,  \* an entry without name
     <<>>}  \* an empty file

\* store.go:218-235: the issues of the entries one by one, in the order of the entries
RECURSIVE EntryIssues(_)
EntryIssues(entries) ==
    IF entries = <<>> THEN <<>>
    ELSE LET e == Head(entries)
             badNames == SelectSeq(e.names, LAMBDA n : ~isValidHostname(n))
         IN  (IF ~IsValid(e)
              THEN <<[kind |-> "invalid entry", ids |-> <<e.id>>, name |-> <<>>]>>
              ELSE (IF ~isValidIP(e.ip)
                    THEN <<[kind |-> "invalid IP address", ids |-> <<e.id>>, name |-> e.ip]>>
                    ELSE <<>>)
                   \o [i \in 1..Len(badNames) |->
                         [kind |-> "invalid hostname", ids |-> <<e.id>>, name |-> badNames[i]]])
             \o EntryIssues(Tail(entries))

\* store.go:218-222,229-234: seenNames[name], the id of the entry appended for every name of
\* the name list of every valid entry
RECURSIVE SeenIDs(_, _)
SeenIDs(entries, name) ==
    IF entries = <<>> THEN <<>>
    ELSE LET e == Head(entries)
         IN  (IF IsValid(e)
              THEN [i \in 1..Len(SelectSeq(e.names, LAMBDA n : n = name)) |-> e.id]
              ELSE <<>>)
             \o SeenIDs(Tail(entries), name)

\* the keys of seenNames
SeenNames(entries) ==
    UNION {{entries[i].names[j] : j \in 1..Len(entries[i].names)} :
              i \in {k \in 1..Len(entries) : IsValid(entries[k])}}

\* store.go:238-242: an issue for every name seen more than once
DuplicateIssues(entries) ==
    {[kind |-> "duplicate hostname", ids |-> SeenIDs(entries, n), name |-> n] :
        n \in {m \in SeenNames(entries) : Len(SeenIDs(entries, m)) > 1}}

\* the orders in which the range over the map seenNames can deliver the issues of the set
Orderings(S) ==
    {s \in [1..Cardinality(S) -> S] : \A i, j \in 1..Cardinality(S) : s[i] = s[j] => i = j}

\* store.go:209-211: Verify calls s.Load()
VerifyCall(p) ==
    /\ pc[p] = "idle"
    /\ cmd[p] = "none"
    /\ cmd' = [cmd EXCEPT ![p] = "verify"]
    /\ op' = [op EXCEPT ![p] = "load"]
    /\ pre' = [pre EXCEPT ![p] = Bytes(spath)]
    /\ pc' = [pc EXCEPT ![p] = "ld_open"]
    /\ UNCHANGED <<dir, data, flock, now, res, lockVars, spath, euid, strict, modelVars, hf, content,
                   src, dst, rfd, bpath, info, obs, rsrc, nops, stamp, ncmd, added, kept>>

\* store.go:211-244: Load has returned; its error is returned, or the issues of the entries
\* followed by those of the duplicate names
VerifyAfterLoad(p) ==
    /\ pc[p] = "cli_ret"
    /\ cmd[p] = "verify"
    /\ IF res[p] # "ok"
       THEN out' = [out EXCEPT ![p] = [call |-> "Verify", arg |-> <<>>, ret |-> <<>>]]
       ELSE \E dups \in Orderings(DuplicateIssues(hf[p])) :
               out' = [out EXCEPT ![p] = [call |-> "Verify", arg |-> <<hf[p]>>,
                                          ret |-> <<EntryIssues(hf[p]) \o dups>>]]
    /\ cmd' = [cmd EXCEPT ![p] = "none"]
    /\ pc' = [pc EXCEPT ![p] = "idle"]
    /\ UNCHANGED <<dir, data, flock, now, res, lockVars, spath, euid, strict, removed, storeVars,
                   histVars>>

\* a hosts file, or none, and Stores that parse strictly or not
InitVerify ==
    /\ InitProcs
    /\ hf = [p \in Procs |-> <<>>]
    /\ content = [p \in Procs |-> <<>>]
    /\ spath = HostsPath
    /\ euid = 1000
    /\ strict \in BOOLEAN
    /\ \E present \in BOOLEAN :
          dir = [f \in Paths |-> IF f = spath /\ present THEN 1 ELSE NoFile]
    /\ \E t \in VerifyTexts :
          data = [i \in Inodes |-> IF i = 1 /\ dir[spath] = 1 THEN t ELSE <<>>]

NextVerify ==
    \/ \E p \in Procs : VerifyCall(p)
    \/ \E p \in Procs : LoadOpen(p)
    \/ \E p \in Procs : LoadParse(p)
    \/ \E p \in Procs : VerifyAfterLoad(p)

\* the processes run Verify on the hosts file, in any interleaving
SpecVerify == InitVerify /\ [][NextVerify]_vars

\* the ids of the entries that have the name in their name list
Owners(entries, name) ==
    {entries[i].id : i \in {k \in 1..Len(entries) :
                                \E j \in 1..Len(entries[k].names) : entries[k].names[j] = name}}

\* the places of the duplicate issues for the name among the issues
DuplicatesOf(issues, name) ==
    {k \in 1..Len(issues) : issues[k].kind = "duplicate hostname" /\ issues[k].name = name}

\* C20: a Verify that returns issues returns exactly one duplicate issue for every hostname
\* that is in the name list of more than one entry, with the ids of all these entries, and
\* none for a hostname of a single entry; and Verify leaves every file as it was: the hosts
\* file holds what it held at the call and no other file exists.
C20_VerifyReportsDuplicates ==
    /\ \A p \in Procs :
          out[p].call = "Verify" /\ out[p].arg # <<>> =>
              LET entries == out[p].arg[1]
                  issues  == out[p].ret[1]
              IN  \A name \in SeenNames(entries) \cup {issues[k].name : k \in 1..Len(issues)} :
                      LET D == DuplicatesOf(issues, name)
                      IN  IF Cardinality(Owners(entries, name)) > 1
                          THEN /\ Cardinality(D) = 1
                               /\ \A k \in D : {issues[k].ids[i] : i \in 1..Len(issues[k].ids)}
                                                    = Owners(entries, name)
                          ELSE D = {}
    /\ \A p \in Procs : cmd[p] = "verify" \/ out[p].call = "Verify" => Bytes(spath) = pre[p]
    /\ \A f \in Paths \ {spath} : dir[f] = NoFile

-----------------------------------------------------------------------------
(* internal/cli/commands.go: hostsctl rm *)

\* model.go:114-119: the name is one of the names of the entry
HasName(e, name) == \E j \in 1..Len(e.names) : e.names[j] = name

\* model.go:111-122: FindByName returns pointers to the matching elements of
\* h.Entries: the places of these elements in the array under the slice
RECURSIVE FindByName(_, _)
FindByName(entries, name) ==
    IF entries = <<>> THEN <<>>
    ELSE FindByName(SubSeq(entries, 1, Len(entries) - 1), name)
            \o (IF HasName(entries[Len(entries)], name) THEN <<Len(entries)>> ELSE <<>>)

\* model.go:146: append(h.Entries[:i], h.Entries[i+1:]...) moves the elements
\* after i one place down in the same array, whose elements from the new
\* length on keep what they held
SliceRemoveEntry(h, id) ==
    [arr |-> RemoveEntry(SubSeq(h.arr, 1, h.len), id).entries
                \o SubSeq(h.arr, h.len + (IF FindByID(SubSeq(h.arr, 1, h.len), id) = 0 THEN 1 ELSE 0),
                          Len(h.arr)),
     len |-> h.len - (IF FindByID(SubSeq(h.arr, 1, h.len), id) = 0 THEN 0 ELSE 1)]

\* commands.go:356-358: for _, entry := range entries { hostsFile.RemoveEntry(entry.ID) }
\* reads the id through each pointer when its turn comes
RECURSIVE RemoveEach(_, _, _)
RemoveEach(h, ptrs, k) ==
    IF k > Len(ptrs) THEN SubSeq(h.arr, 1, h.len)
    ELSE RemoveEach(SliceRemoveEntry(h, h.arr[ptrs[k]].id), ptrs, k + 1)

\* commands.go:351-358: the entries of the file after rm --name
RemoveByName(entries, name) ==
    RemoveEach([arr |-> entries, len |-> Len(entries)], FindByName(entries, name), 1)

\* the lines of the hosts files rm is run on: entries that have the name a,
\* first or second or disabled, and entries that do not have it
RemoveLines == {<<":", ":", "1", " ", "a">>, <<":", ":", "1", " ", "x">>,
                <<":", ":", "1", " ", "y", " ", "a">>, <<"#", " ", ":", ":", "1", " ", "a">>,
                <<":", ":", "1", " ", "z", " ", "#", " ", "c">>}

\* the longest hosts file rm is run on, in lines
MaxRemoveLines == 3

RECURSIVE RemoveTexts(_)
RemoveTexts(n) ==
    IF n = 0 THEN {<<>>}
    ELSE RemoveTexts(n - 1)
            \cup {t \o l \o <<"\n">> : t \in {u \in RemoveTexts(n - 1) : Len(ScanLines(u)) = n - 1},
                                       l \in RemoveLines}

\* the values of --id (0 when the flag is not given) and of --name
RemoveArgIDs == 0..(MaxRemoveLines + 1)

RemoveArgNames == {<<>>, <<"a">>, <<"x">>, <<"q">>}

\* commands.go:331-336: runRemove(id, name) rejects a call without --id and
\* --name and enters lock.WithQuickLock(c.hostsFile, fn) otherwise
RemoveCall(p) ==
    /\ pc[p] = "idle"
    /\ ~acquired[p]
    /\ ncmd[p] = 0
    /\ \E id \in RemoveArgIDs, name \in RemoveArgNames :
        /\ out' = [out EXCEPT ![p] = [call |-> "rm", arg |-> <<id, name>>, ret |-> <<>>]]
        /\ IF id = 0 /\ name = <<>>
           THEN /\ Return(p, "err_usage")
                /\ UNCHANGED <<cmd, inWith, invoked, fnres>>
           ELSE /\ cmd' = [cmd EXCEPT ![p] = "rm"]
                /\ inWith' = [inWith EXCEPT ![p] = TRUE]
                /\ invoked' = [invoked EXCEPT ![p] = 0]
                /\ fnres' = [fnres EXCEPT ![p] = "none"]
                /\ pc' = [pc EXCEPT ![p] = "lwt_open"]
                /\ UNCHANGED res
    /\ ncmd' = [ncmd EXCEPT ![p] = @ + 1]
    /\ pre' = [pre EXCEPT ![p] = Bytes(spath)]
    /\ UNCHANGED <<dir, data, flock, now, lfile, acquired, elapsed, spath, euid, strict, removed,
                   storeVars, obs, rsrc, nops, stamp, added, kept>>

\* flock.go:141 and commands.go:337-339: fn starts, store.Load() is called
RemoveFn(p) ==
    /\ pc[p] = "wl_fn"
    /\ cmd[p] = "rm"
    /\ invoked' = [invoked EXCEPT ![p] = @ + 1]
    /\ op' = [op EXCEPT ![p] = "load"]
    /\ pc' = [pc EXCEPT ![p] = "ld_open"]
    /\ UNCHANGED <<dir, data, flock, now, res, lfile, acquired, elapsed, inWith, fnres, ctxVars, modelVars,
                   hf, content, src, dst, rfd, bpath, info, histVars>>

\* commands.go:344-358: what runRemove makes of the loaded entries, and
\* whether it found what it was asked to remove
RemoveResult(entries, id, name) ==
    IF id # 0 THEN RemoveEntry(entries, id)
    ELSE [entries |-> RemoveByName(entries, name), found |-> FindByName(entries, name) # <<>>]

\* commands.go:340-362: Load has returned; on success the entries are removed
\* and store.Save(hostsFile) is called
RemoveAfterLoad(p) ==
    /\ pc[p] = "cli_ret"
    /\ cmd[p] = "rm"
    /\ op[p] = "load"
    /\ IF res[p] # "ok" \/ ~RemoveResult(hf[p], out[p].arg[1], out[p].arg[2]).found
       THEN /\ fnres' = [fnres EXCEPT ![p] = "fn_error"]
            /\ pc' = [pc EXCEPT ![p] = AfterFn("fn_error")]
            /\ UNCHANGED <<res, op, hf, content, bpath>>
       ELSE /\ hf' = [hf EXCEPT ![p] = RemoveResult(hf[p], out[p].arg[1], out[p].arg[2]).entries]
            /\ op' = [op EXCEPT ![p] = "save"]
            /\ EnterSave(p, hf'[p])
            /\ UNCHANGED fnres
    /\ UNCHANGED <<dir, data, flock, now, lfile, acquired, elapsed, inWith, invoked, ctxVars, modelVars,
                   src, dst, rfd, info, histVars>>

\* commands.go:362: Save has returned, and fn returns its error or nil
RemoveAfterSave(p) ==
    /\ pc[p] = "cli_ret"
    /\ cmd[p] = "rm"
    /\ op[p] = "save"
    /\ fnres' = [fnres EXCEPT ![p] = IF res[p] = "ok" THEN "fn_ok" ELSE "fn_error"]
    /\ pc' = [pc EXCEPT ![p] = AfterFn(fnres'[p])]
    /\ UNCHANGED <<dir, data, flock, now, res, lfile, acquired, elapsed, inWith, invoked, ctxVars, modelVars,
                   storeVars, histVars>>

\* a hosts file of up to MaxRemoveLines entries, with and without the name
InitRemove ==
    /\ InitProcs
    /\ hf = [p \in Procs |-> <<>>]
    /\ content = [p \in Procs |-> <<>>]
    /\ spath = HostsPath
    /\ euid = 1000
    /\ strict = FALSE
    /\ dir = [f \in Paths |-> IF f = HostsPath THEN 1 ELSE NoFile]
    /\ \E t \in RemoveTexts(MaxRemoveLines) :
          data = [i \in Inodes |-> IF i = 1 THEN t ELSE <<>>]

NextRemove ==
    \/ RemoveCall(Writer)
    \/ LockWithTimeoutOpen(Writer)
    \/ LockWithTimeoutFlock(Writer)
    \/ LockWithTimeoutWrite(Writer)
    \/ RemoveFn(Writer)
    \/ LoadOpen(Writer)
    \/ LoadParse(Writer)
    \/ RemoveAfterLoad(Writer)
    \/ SaveBackupOpen(Writer)
    \/ SaveBackupCreate(Writer)
    \/ SaveBackupCopy(Writer)
    \/ SaveTempCreate(Writer)
    \/ SaveTempWrite(Writer)
    \/ SaveTempSync(Writer)
    \/ SaveRename(Writer)
    \/ SaveRemove(Writer)
    \/ SaveDone(Writer)
    \/ RemoveAfterSave(Writer)
    \/ UnlockFlock(Writer)
    \/ UnlockClose(Writer)
    \/ UnlockRemove(Writer)

\* one hostsctl rm command, alone on the hosts file: it never waits for the lock
SpecRemove == InitRemove /\ [][NextRemove]_vars

\* what the hosts file records of its entries, in order: everything but the ids
Recorded(entries) ==
    [i \in 1..Len(entries) |->
        [ip |-> entries[i].ip, names |-> entries[i].names, comment |-> entries[i].comment,
         disabled |-> entries[i].disabled]]

\* the entries that do not have the name, in order
RECURSIVE Without(_, _)
Without(entries, name) ==
    IF entries = <<>> THEN <<>>
    ELSE Without(SubSeq(entries, 1, Len(entries) - 1), name)
            \o (IF HasName(entries[Len(entries)], name) THEN <<>> ELSE <<entries[Len(entries)]>>)

\* C21: when rm --name N has succeeded, the saved file holds exactly the
\* entries the file had that do not have the name N, unchanged and in their
\* order, and no entry that has the name N.
C21_RemoveByNameRemovesExactlyNamed ==
    \A p \in Procs :
        cmd[p] = "rm" /\ fnres[p] = "fn_ok" /\ out[p].arg[1] = 0 =>
            Recorded(Parse(Bytes(spath), FALSE).entries)
                = Recorded(Without(Parse(pre[p], FALSE).entries, out[p].arg[2]))

\* C25: every entry Parse produces, strictly or not, has a valid IP address
\* and at least one hostname, every one of them valid, so that IsValid holds
\* of it; a line that has an IP address and no hostname yields no entry.
C25_ParsedEntriesAreValid ==
    \A p \in Procs :
        out[p].call = "Parse" =>
            \A i \in 1..Len(out[p].ret[1].entries) :
                /\ isValidIP(out[p].ret[1].entries[i].ip)
                /\ Len(out[p].ret[1].entries[i].names) > 0
                /\ \A j \in 1..Len(out[p].ret[1].entries[i].names) :
                      isValidHostname(out[p].ret[1].entries[i].names[j])
                /\ IsValid(out[p].ret[1].entries[i])

\* C26: after a Parse that succeeds, strict or not, the entries have the ids
\* 1, 2, ..., n in the order of the list; the lines that yield no entry
\* (blank, comment, skipped as malformed) use up no id.
C26_IDsCountFromOne ==
    \A p \in Procs :
        out[p].call = "Parse" /\ out[p].ret[1].ok =>
            \A i \in 1..Len(out[p].ret[1].entries) : out[p].ret[1].entries[i].id = i

\* a lenient Parse has returned an entry from the last of several lines, the
\* lines before it, one of them malformed, having yielded none
C26_Witness ==
    \E p \in Procs :
        /\ out[p].call = "Parse"
        /\ ~out[p].arg[2]
        /\ out[p].ret[1].ok
        /\ Len(out[p].ret[1].entries) = 1
        /\ Len(ScanLines(out[p].arg[1])) > 1
        /\ ~Parse(out[p].arg[1], TRUE).ok
        /\ parseLine(ScanLines(out[p].arg[1])[Len(ScanLines(out[p].arg[1]))], 1, 1).kind = "entry"

-----------------------------------------------------------------------------
(* Store.Load followed by Store.Save of what was loaded *)

\* how often a caller loads the file and saves what it has loaded
MaxRounds == 2

\* store.go:29-30: a caller calls Load(), at first or after a Save of what it
\* had loaded has succeeded
LoadCall(p) ==
    /\ pc[p] = "idle"
    /\ ncmd[p] < MaxRounds
    /\ op[p] = "none" \/ (op[p] = "save" /\ res[p] = "ok")
    /\ ncmd' = [ncmd EXCEPT ![p] = @ + 1]
    /\ op' = [op EXCEPT ![p] = "load"]
    /\ pre' = [pre EXCEPT ![p] = Bytes(spath)]
    /\ pc' = [pc EXCEPT ![p] = "ld_open"]
    /\ UNCHANGED <<dir, data, flock, now, res, lockVars, ctxVars, modelVars, hf, content, src, dst, rfd,
                   bpath, info, obs, rsrc, nops, stamp, added, kept>>

\* store.go:48-55: the caller passes the HostsFile Load has returned, as it is, to Save
SaveLoadedCall(p) ==
    /\ pc[p] = "idle"
    /\ op[p] = "load"
    /\ res[p] = "ok"
    /\ EnterSave(p, hf[p])
    /\ op' = [op EXCEPT ![p] = "save"]
    /\ out' = [out EXCEPT ![p] = [call |-> "Save", arg |-> <<hf[p]>>, ret |-> <<>>]]
    /\ UNCHANGED <<dir, data, flock, now, lockVars, ctxVars, removed, hf, src, dst, rfd, info, histVars>>

\* a hosts file of up to MaxLines lines, and a Store that parses strictly or not
InitLoadSave ==
    /\ InitProcs
    /\ hf = [p \in Procs |-> <<>>]
    /\ content = [p \in Procs |-> <<>>]
    /\ spath = HostsPath
    /\ euid = 1000
    /\ strict \in BOOLEAN
    /\ dir = [f \in Paths |-> IF f = HostsPath THEN 1 ELSE NoFile]
    /\ \E t \in Texts : data = [i \in Inodes |-> IF i = 1 THEN t ELSE <<>>]

NextLoadSave ==
    \/ LoadCall(Writer)
    \/ LoadOpen(Writer)
    \/ LoadParse(Writer)
    \/ SaveLoadedCall(Writer)
    \/ SaveBackupOpen(Writer)
    \/ SaveBackupCreate(Writer)
    \/ SaveBackupCopy(Writer)
    \/ SaveTempCreate(Writer)
    \/ SaveTempWrite(Writer)
    \/ SaveTempSync(Writer)
    \/ SaveRename(Writer)
    \/ SaveRemove(Writer)
    \/ SaveDone(Writer)
    \/ ClockTick

\* a caller loads the hosts file and saves what it has loaded, MaxRounds times
SpecLoadSave == InitLoadSave /\ [][NextLoadSave]_vars

\* C30: loading the file and saving what was loaded, done a second time,
\* leaves the bytes the first time has left, and the second Load returns the
\* entries of the first in ip, names, comment, flag and order: the file the
\* first Save has written loads, with these entries.
C30_LoadSaveIsIdempotent ==
    \A p \in Procs :
        /\ ncmd[p] = MaxRounds /\ op[p] = "load" =>
              /\ Parse(Bytes(spath), strict).ok
              /\ pc[p] = "idle" /\ res[p] = "ok" => Recorded(hf[p]) = Recorded(out[p].arg[1])
        /\ ncmd[p] = MaxRounds /\ op[p] = "save" /\ pc[p] = "idle" /\ res[p] = "ok" =>
              Bytes(spath) = pre[p]

====
